---- MODULE Spec2Model ----
(***************************************************************************)
(* BlurViewer (src/BlurViewer.py): the viewport transform and animation    *)
(* engine of the image viewer, as a state machine.                         *)
(*                                                                         *)
(* Python floats are modelled in fixed point:                              *)
(*   scales, opening/closing scale and opacity : ScaleOne units per 1.0    *)
(*   offsets, mouse positions, pan velocity     : PxOne units per pixel    *)
(*   background opacity                         : OpOne units per 1.0      *)
(*   navigation_progress                        : ProgOne units per 1.0    *)
(* Products with a constant factor are truncated toward zero (Scaled).     *)
(*                                                                         *)
(* The widget is the record `viewer` (one field per attribute of the       *)
(* object); handlers are operators from a viewer record to the viewer      *)
(* record they leave behind, composed the way the methods call each other. *)
(***************************************************************************)
EXTENDS Integers, Sequences, FiniteSets, TLC

VARIABLES
    viewer,        \* the BlurViewer object's attributes (in SpecCache and
                   \* SpecLru: the OptimizedImageViewer's image_cache and its
                   \* users; in SpecLoader: one ImageLoader thread)
    queue,         \* signals emitted by ImageLoader threads, not yet delivered to their slot
    op,            \* the handler that ran last
    needs_update,  \* animate's local needs_update at the end of the last tick
    n_events,      \* input events delivered so far (in SpecCache and SpecLru:
                   \* cache calls begun)
    n_ticks,       \* timer ticks so far
    drag           \* the drag gesture in progress: where it started

vars == <<viewer, queue, op, needs_update, n_events, n_ticks, drag>>

-----------------------------------------------------------------------------
(* Fixed-point resolution *)

ScaleOne == 100 * 100
PxOne == 10 * 10
OpOne == 10 * 10
ProgOne == 10 * 100

(* Bounds of the model: input events and timer ticks of each specification *)
MaxZoomEvents == 2
MaxZoomTicks == 3
MaxNavEvents == 2
MaxNavTicks == 1
MaxPanEvents == 4
MaxPanTicks == 2
MaxSettleEvents == 3
MaxSettleTicks == 1
MaxRepaintEvents == 2
MaxRepaintTicks == 2
MaxUpdates == 2
MaxCloseEvents == 3
MaxCloseTicks == 2
MaxSlideEvents == 2
MaxSlideTicks == 1
MaxEmptyEvents == 3
MaxCacheCalls == 4
MaxOpeningEvents == 1
MaxOpeningTicks == 29
MaxFitEvents == 2
MaxFitTicks == 1
MaxRotateEvents == 2
MaxRotateTicks == 2
MaxDirectoryEvents == 3
MaxDirectoryTicks == 1
MaxLruCalls == 5

-----------------------------------------------------------------------------
(* Arithmetic *)

Abs(a) == IF a < 0 THEN -a ELSE a

Min2(a, b) == IF a <= b THEN a ELSE b

Max2(a, b) == IF a >= b THEN a ELSE b

\* a * b / c for a, b >= 0, c > 0, rounded down; a is split so that no
\* intermediate product leaves the 32-bit range.
MulDivNat(a, b, c) ==
    LET ah == a \div 1000
        al == a % 1000
        t  == ah * b
        qt == t \div c
        rt == t % c
    IN  qt * 1000 + ((rt * 1000 + al * b) \div c)

\* a * b / c truncated toward zero, b >= 0, c > 0.
MulDiv(a, b, c) == IF a >= 0 THEN MulDivNat(a, b, c) ELSE -MulDivNat(-a, b, c)

\* x * (num / den), a float product with a constant factor, den > 0.
Scaled(x, num, den) == IF num >= 0 THEN MulDiv(x, num, den) ELSE -MulDiv(x, -num, den)

Pt(px, py) == [x |-> px, y |-> py]

PtAdd(p, q) == [x |-> p.x + q.x, y |-> p.y + q.y]

PtSub(p, q) == [x |-> p.x - q.x, y |-> p.y - q.y]

PtScaled(p, num, den) == [x |-> Scaled(p.x, num, den), y |-> Scaled(p.y, num, den)]

ZeroPt == Pt(0, 0)

-----------------------------------------------------------------------------
(* Class constants, BlurViewer.py:131-144 *)

LERP_FACTOR == 18            \* 0.18, in hundredths
PAN_FRICTION == 85           \* 0.85, in hundredths
NAVIGATION_SPEED == 45       \* 0.045, in ProgOne units
ZOOM_FACTOR == 120           \* 1.2, in hundredths
ZOOM_STEP == 15              \* 0.15, in hundredths
MIN_SCALE == ScaleOne \div 10
MAX_SCALE == 20 * ScaleOne
WINDOWED_BG_OPACITY == 200 * OpOne
FULLSCREEN_BG_OPACITY == 250 * OpOne

(* Thresholds written in animate *)
SCALE_EPS == ScaleOne \div 1000      \* 0.001
OFFSET_EPS == PxOne \div 10          \* 0.1 px
VELOCITY_EPS == PxOne \div 10        \* 0.1 px per tick
BG_EPS == OpOne                      \* 1.0

-----------------------------------------------------------------------------
(* The environment: the screen and the directory of the opened image *)

\* QApplication.primaryScreen().availableGeometry(): origin (0,0)
AvailW == 1920
AvailH == 1040
\* QApplication.primaryScreen().geometry()
ScreenW == 1920
ScreenH == 1080

\* QRect.center() is ((left + right) / 2, (top + bottom) / 2), right = left + width - 1
AvailCenter == Pt(((AvailW - 1) \div 2) * PxOne, ((AvailH - 1) \div 2) * PxOne)

ScreenCenter == Pt(((ScreenW - 1) \div 2) * PxOne, ((ScreenH - 1) \div 2) * PxOne)

\* Files of the directory, already in get_image_files_in_directory's order.
\* A pixmap is identified by the file it was decoded from; 0 is None.
NoPixmap == 0
Files == {1, 2, 3}
image_files_in_directory == <<1, 2, 3>>

\* 1: a photo; 2: a panorama wider than ten screens; 3: a small animated GIF
PixW(p) == CASE p = 1 -> 1920 [] p = 2 -> 20000 [] p = 3 -> 50 [] OTHER -> 0

PixH(p) == CASE p = 1 -> 1080 [] p = 2 -> 1000 [] p = 3 -> 50 [] OTHER -> 0

\* Path(path).suffix.lower() in ANIMATED_EXTENSIONS
IsAnimated(p) == p = 3

-----------------------------------------------------------------------------
(* BlurViewer.__init__, up to the call of load_image *)

\* viewer.loading_thread: the ImageLoader last started, and the slots its
\* signals are connected to ("load": _on_image_loaded, _on_animated_image_loaded;
\* "nav": _on_navigation_image_loaded, _on_navigation_animated_loaded).
NoThread == [path |-> 0, slot |-> "none", running |-> FALSE]

BlurViewer__init__ ==
    [ _needs_cache_update |-> TRUE, _current_pixmap_cache |-> NoPixmap,
      pixmap |-> NoPixmap, image_path |-> 0, movie |-> NoPixmap, rotation |-> 0,
      image_files |-> << >>, current_index |-> -1,
      target_scale |-> ScaleOne, current_scale |-> ScaleOne,
      target_offset |-> ZeroPt, current_offset |-> ZeroPt, fit_scale |-> ScaleOne,
      navigation_animation |-> FALSE, navigation_direction |-> 0,
      navigation_progress |-> 0, old_pixmap |-> NoPixmap, new_pixmap |-> NoPixmap,
      is_panning |-> FALSE, last_mouse_pos |-> ZeroPt, pan_velocity |-> ZeroPt,
      opening_animation |-> TRUE, opening_scale |-> Scaled(ScaleOne, 8, 10),
      opening_opacity |-> 0,
      closing_animation |-> FALSE, closing_scale |-> ScaleOne,
      closing_opacity |-> ScaleOne,
      background_opacity |-> 0, target_background_opacity |-> WINDOWED_BG_OPACITY,
      is_fullscreen |-> FALSE, saved_scale |-> ScaleOne, saved_offset |-> ZeroPt,
      update_pending |-> FALSE, loading_thread |-> NoThread,
      \* QTimer.singleShot calls not yet fired: of _do_update, of QApplication.quit
      update_timers |-> 0, quit_timers |-> 0,
      \* calls of QWidget.update() made so far
      updates |-> 0 ]

-----------------------------------------------------------------------------
(* Pixmap cache and repaint scheduling *)

HasImage(v) == v.pixmap # NoPixmap \/ v.movie # NoPixmap

\* The pixmap _get_current_pixmap returns: movie.currentPixmap() is a frame of
\* the movie's file.
_get_current_pixmap(v) ==
    IF v._needs_cache_update
    THEN (IF v.pixmap # NoPixmap THEN v.pixmap ELSE v.movie)
    ELSE v._current_pixmap_cache

\* The state _get_current_pixmap leaves.
Cached(v) ==
    [v EXCEPT !._current_pixmap_cache = _get_current_pixmap(v),
              !._needs_cache_update = FALSE]

_invalidate_pixmap_cache(v) == [v EXCEPT !._needs_cache_update = TRUE]

\* schedule_update without the test of update_pending
schedule_update_uncoalesced(v) ==
    [v EXCEPT !.update_pending = TRUE, !.update_timers = @ + 1]

schedule_update(v) ==
    IF ~v.update_pending
    THEN [v EXCEPT !.update_pending = TRUE, !.update_timers = @ + 1]
    ELSE v

_do_update(v) ==
    [v EXCEPT !.update_pending = FALSE, !.update_timers = @ - 1,
              !.updates = @ + 1]

-----------------------------------------------------------------------------
(* Geometry *)

\* min(box_w * margin / w, box_h * margin / h), margin = num / 10
BoxScale(bw, bh, w, h, num) ==
    Min2((bw * num * ScaleOne) \div (10 * w), (bh * num * ScaleOne) \div (10 * h))

\* _calculate_effective_dimensions without the swap for 90 and 270 degrees
_calculate_effective_dimensions_unrotated(v) ==
    LET cp == _get_current_pixmap(v)
    IN  IF cp = NoPixmap THEN <<1, 1>> ELSE <<PixW(cp), PixH(cp)>>

_calculate_effective_dimensions(v) ==
    LET cp == _get_current_pixmap(v)
    IN  IF cp = NoPixmap THEN <<1, 1>>
        ELSE IF v.rotation % 180 = 90 THEN <<PixH(cp), PixW(cp)>>
        ELSE <<PixW(cp), PixH(cp)>>

\* min(scale_x, scale_y) of zoom_to, _fit_to_fullscreen, _fit_to_fullscreen_instant
\* and mouseDoubleClickEvent; 1.0 where the code falls back to it.
FullscreenFit(v) ==
    LET d == _calculate_effective_dimensions(v)
    IN  IF d[1] > 0 /\ d[2] > 0
        THEN BoxScale(ScreenW, ScreenH, d[1], d[2], 10)
        ELSE ScaleOne

\* QRectF(x, y, w, h) of get_image_bounds; a null pixmap gives the null QRectF().
get_image_bounds(v) ==
    LET cp == _get_current_pixmap(v)
        img_w == MulDivNat(v.current_scale, PixW(cp), ScaleOne \div PxOne)
        img_h == MulDivNat(v.current_scale, PixH(cp), ScaleOne \div PxOne)
    IN  IF cp = NoPixmap THEN [x |-> 0, y |-> 0, w |-> 0, h |-> 0]
        ELSE [x |-> v.current_offset.x - (img_w \div 2),
              y |-> v.current_offset.y - (img_h \div 2),
              w |-> img_w, h |-> img_h]

\* QRectF.contains(QPointF): edges included, a null rectangle contains nothing.
RectContains(r, p) ==
    /\ ~(r.w = 0 /\ r.h = 0)
    /\ r.x <= p.x /\ p.x <= r.x + r.w
    /\ r.y <= p.y /\ p.y <= r.y + r.h

point_in_image(v, point) == RectContains(get_image_bounds(v), point)

-----------------------------------------------------------------------------
(* Image display set-up *)

_setup_image_display(v) ==
    LET cp == _get_current_pixmap(v)
        c  == Cached(v)
        fit == IF PixW(cp) > 0 /\ PixH(cp) > 0
               THEN Min2(BoxScale(AvailW, AvailH, PixW(cp), PixH(cp), 9), ScaleOne)
               ELSE ScaleOne
    IN  IF cp = NoPixmap THEN c
        ELSE schedule_update(
               [c EXCEPT !.fit_scale = fit,
                         !.target_scale = fit,
                         !.current_scale = Scaled(fit, 8, 10),
                         !.target_offset = AvailCenter,
                         !.current_offset = AvailCenter,
                         !.opening_animation = TRUE,
                         !.opening_scale = Scaled(ScaleOne, 8, 10),
                         !.opening_opacity = 0,
                         !.background_opacity = 0,
                         !.target_background_opacity = WINDOWED_BG_OPACITY,
                         !.pan_velocity = ZeroPt])

-----------------------------------------------------------------------------
(* Zoom and fit *)

\* focus_point = None
NonePt == [none |-> TRUE]

Clamp(s) == Max2(MIN_SCALE, Min2(MAX_SCALE, s))

\* zoom_to taking the scale ratio from target_scale instead of current_scale
zoom_to_from_target(v, requested, focus_point) ==
    IF ~HasImage(v) THEN v
    ELSE
      LET c == IF v.is_fullscreen \/ focus_point # NonePt THEN Cached(v) ELSE v
          floored == IF v.is_fullscreen
                     THEN Max2(FullscreenFit(v), requested)
                     ELSE requested
          new_scale == Clamp(floored)
          focus == IF focus_point = NonePt THEN v.current_offset
                   ELSE IF ~point_in_image(v, focus_point) THEN v.current_offset
                   ELSE focus_point
          new_dx == MulDiv(focus.x - v.current_offset.x, new_scale, v.target_scale)
          new_dy == MulDiv(focus.y - v.current_offset.y, new_scale, v.target_scale)
      IN  [c EXCEPT !.target_offset = Pt(focus.x - new_dx, focus.y - new_dy),
                    !.target_scale = new_scale]

\* zoom_to without the early return when no image is loaded
zoom_to_unguarded(v, requested, focus_point) ==
    LET c == IF v.is_fullscreen \/ focus_point # NonePt THEN Cached(v) ELSE v
        new_scale == Clamp(requested)
        focus == IF focus_point = NonePt THEN v.current_offset
                 ELSE IF ~point_in_image(v, focus_point) THEN v.current_offset
                 ELSE focus_point
        new_dx == MulDiv(focus.x - v.current_offset.x, new_scale, v.current_scale)
        new_dy == MulDiv(focus.y - v.current_offset.y, new_scale, v.current_scale)
    IN  [c EXCEPT !.target_offset = Pt(focus.x - new_dx, focus.y - new_dy),
                  !.target_scale = new_scale]

\* zoom_to without the fullscreen floor
zoom_to_no_floor(v, requested, focus_point) ==
    IF ~HasImage(v) THEN v
    ELSE
      LET c == IF v.is_fullscreen \/ focus_point # NonePt THEN Cached(v) ELSE v
          new_scale == Clamp(requested)
          focus == IF focus_point = NonePt THEN v.current_offset
                   ELSE IF ~point_in_image(v, focus_point) THEN v.current_offset
                   ELSE focus_point
          new_dx == MulDiv(focus.x - v.current_offset.x, new_scale, v.current_scale)
          new_dy == MulDiv(focus.y - v.current_offset.y, new_scale, v.current_scale)
      IN  [c EXCEPT !.target_offset = Pt(focus.x - new_dx, focus.y - new_dy),
                    !.target_scale = new_scale]

zoom_to(v, requested, focus_point) ==
    IF ~HasImage(v) THEN v
    ELSE
      LET c == IF v.is_fullscreen \/ focus_point # NonePt THEN Cached(v) ELSE v
          floored == IF v.is_fullscreen
                     THEN LET d == _calculate_effective_dimensions(v)
                          IN  IF d[1] > 0 /\ d[2] > 0
                              THEN Max2(BoxScale(ScreenW, ScreenH, d[1], d[2], 10), requested)
                              ELSE requested
                     ELSE requested
          new_scale == Clamp(floored)
          focus == IF focus_point = NonePt THEN v.current_offset
                   ELSE IF ~point_in_image(v, focus_point) THEN v.current_offset
                   ELSE focus_point
          old_scale == v.current_scale
          dx == focus.x - v.current_offset.x
          dy == focus.y - v.current_offset.y
          new_dx == MulDiv(dx, new_scale, old_scale)
          new_dy == MulDiv(dy, new_scale, old_scale)
      IN  [c EXCEPT !.target_offset = IF old_scale > 0
                                      THEN Pt(focus.x - new_dx, focus.y - new_dy)
                                      ELSE @,
                    !.target_scale = new_scale]

\* fit_to_screen setting the current values along with the targets
fit_to_screen_snapping(v) ==
    IF ~HasImage(v) THEN v
    ELSE
      LET cp == _get_current_pixmap(v)
          d  == _calculate_effective_dimensions(v)
          c  == Cached(v)
          fit == IF cp # NoPixmap /\ d[1] > 0 /\ d[2] > 0
                 THEN Min2(BoxScale(AvailW, AvailH, d[1], d[2], 9), ScaleOne)
                 ELSE v.fit_scale
      IN  [c EXCEPT !.fit_scale = fit,
                    !.target_scale = fit,
                    !.current_scale = fit,
                    !.target_offset = AvailCenter,
                    !.current_offset = AvailCenter]

fit_to_screen(v) ==
    IF ~HasImage(v) THEN v
    ELSE
      LET cp == _get_current_pixmap(v)
          d  == _calculate_effective_dimensions(v)
          c  == Cached(v)
          fit == IF cp # NoPixmap /\ d[1] > 0 /\ d[2] > 0
                 THEN Min2(BoxScale(AvailW, AvailH, d[1], d[2], 9), ScaleOne)
                 ELSE v.fit_scale
      IN  [c EXCEPT !.fit_scale = fit,
                    !.target_scale = fit,
                    !.target_offset = AvailCenter,
                    \* QPointF(self.current_offset): a copy, the same value
                    !.current_offset = v.current_offset]

_fit_to_fullscreen(v) ==
    IF ~HasImage(v) THEN v
    ELSE [Cached(v) EXCEPT !.target_scale = FullscreenFit(v),
                           !.target_offset = ScreenCenter]

_fit_to_fullscreen_instant(v) ==
    IF ~HasImage(v) THEN v
    ELSE schedule_update(
           [Cached(v) EXCEPT !.target_scale = FullscreenFit(v),
                             !.current_scale = FullscreenFit(v),
                             !.target_offset = ScreenCenter,
                             !.current_offset = ScreenCenter])

toggle_fullscreen(v) ==
    IF ~v.is_fullscreen
    THEN _fit_to_fullscreen(
           [v EXCEPT !.is_fullscreen = TRUE,
                     !.saved_scale = v.target_scale,
                     !.saved_offset = v.target_offset,
                     !.target_background_opacity = FULLSCREEN_BG_OPACITY])
    ELSE [v EXCEPT !.is_fullscreen = FALSE,
                   !.target_scale = v.saved_scale,
                   !.target_offset = v.saved_offset,
                   !.target_background_opacity = WINDOWED_BG_OPACITY]

-----------------------------------------------------------------------------
(* Loading and directory navigation *)

\* self.image_files.index(path), -1 on ValueError
IndexOf(files, path) ==
    IF \E i \in 1..Len(files) : files[i] = path
    THEN (CHOOSE i \in 1..Len(files) : files[i] = path) - 1
    ELSE -1

setup_directory_navigation(v, path) ==
    [v EXCEPT !.image_files = image_files_in_directory,
              !.current_index = IndexOf(image_files_in_directory, path)]

\* load_image, the part that changes the widget; the loader thread it starts
\* is viewer.loading_thread.
load_image(v, path) ==
    LET a == setup_directory_navigation([v EXCEPT !.image_path = path], path)
        b == IF a.pixmap # NoPixmap
             THEN [a EXCEPT !.opening_animation = TRUE,
                            !.opening_scale = Scaled(ScaleOne, 95, 100),
                            !.opening_opacity = Scaled(ScaleOne, 2, 10)]
             ELSE a
        c == [b EXCEPT !.movie = NoPixmap]
    IN  [_invalidate_pixmap_cache(c) EXCEPT
            !.loading_thread = [path |-> path, slot |-> "load", running |-> TRUE]]

\* navigate_to_image returning early without the test of navigation_animation
NavigationRejected_ignoring_slide(v, direction) ==
    \/ Len(v.image_files) = 0
    \/ v.current_index = -1
    \/ (v.current_index + direction) % Len(v.image_files) = v.current_index

\* navigate_to_image returns early
NavigationRejected(v, direction) ==
    \/ Len(v.image_files) = 0
    \/ v.current_index = -1
    \/ v.navigation_animation
    \/ (v.current_index + direction) % Len(v.image_files) = v.current_index

\* navigate_to_image stopping at the ends of the list instead of wrapping
navigate_to_image_unwrapped(v, direction) ==
    IF NavigationRejected(v, direction) THEN v
    ELSE
      LET new_index == Max2(0, Min2(Len(v.image_files) - 1, v.current_index + direction))
          a == IF ~v.is_fullscreen
               THEN [Cached(v) EXCEPT !.old_pixmap = _get_current_pixmap(v),
                                      !.navigation_direction = direction,
                                      !.navigation_progress = 0,
                                      !.navigation_animation = TRUE]
               ELSE v
      IN  [a EXCEPT !.current_index = new_index,
                    !.loading_thread = [path |-> v.image_files[new_index + 1],
                                        slot |-> "nav", running |-> TRUE]]

navigate_to_image(v, direction) ==
    IF NavigationRejected(v, direction) THEN v
    ELSE
      LET new_index == (v.current_index + direction) % Len(v.image_files)
          a == IF ~v.is_fullscreen
               THEN [Cached(v) EXCEPT !.old_pixmap = _get_current_pixmap(v),
                                      !.navigation_direction = direction,
                                      !.navigation_progress = 0,
                                      !.navigation_animation = TRUE]
               ELSE v
      IN  [a EXCEPT !.current_index = new_index,
                    !.loading_thread = [path |-> v.image_files[new_index + 1],
                                        slot |-> "nav", running |-> TRUE]]

\* _on_load_failed without the block that aborts the slide
_on_load_failed_keeping_slide(v) ==
    IF ~HasImage(v) THEN [v EXCEPT !.quit_timers = @ + 1] ELSE v

_on_load_failed(v) ==
    LET a == IF v.navigation_animation
             THEN [v EXCEPT !.navigation_animation = FALSE,
                            !.old_pixmap = NoPixmap,
                            !.new_pixmap = NoPixmap]
             ELSE v
    IN  IF ~HasImage(a) THEN [a EXCEPT !.quit_timers = @ + 1] ELSE a

_on_image_loaded(v, pixmap) ==
    _setup_image_display(
        _invalidate_pixmap_cache(
            [v EXCEPT !.movie = NoPixmap, !.pixmap = pixmap, !.rotation = 0]))

\* QMovie(path) of a file the loader has just validated is valid and has a
\* first frame; the frame stands in for self.pixmap while the display is set up.
_on_animated_image_loaded(v, path) ==
    LET a == _invalidate_pixmap_cache(
                 [v EXCEPT !.movie = path, !.pixmap = NoPixmap, !.rotation = 0])
        b == _setup_image_display([a EXCEPT !.pixmap = path])
    IN  [b EXCEPT !.pixmap = NoPixmap]

_on_navigation_image_loaded(v, pixmap) ==
    LET a == _invalidate_pixmap_cache(v)
    IN  IF a.is_fullscreen
        THEN _fit_to_fullscreen_instant(
                 [a EXCEPT !.movie = NoPixmap, !.pixmap = pixmap, !.rotation = 0])
        ELSE [a EXCEPT !.new_pixmap = pixmap, !.rotation = 0]

_on_navigation_animated_loaded(v, path) ==
    LET a == _invalidate_pixmap_cache(v)
    IN  IF a.is_fullscreen
        THEN LET b == _fit_to_fullscreen_instant(
                          [a EXCEPT !.movie = path, !.pixmap = path, !.rotation = 0])
             IN  [b EXCEPT !.pixmap = NoPixmap]
        ELSE [a EXCEPT !.new_pixmap = path, !.rotation = 0]

_on_movie_frame_changed(v) == schedule_update(_invalidate_pixmap_cache(v))

\* close_application without the test of closing_animation
close_application_unguarded(v) ==
    [v EXCEPT !.closing_animation = TRUE,
              !.target_background_opacity = 0,
              !.quit_timers = @ + 1]

close_application(v) ==
    IF ~v.closing_animation
    THEN [v EXCEPT !.closing_animation = TRUE,
                   !.target_background_opacity = 0,
                   !.quit_timers = @ + 1]
    ELSE v

-----------------------------------------------------------------------------
(* Input handlers *)

\* wheelEvent taking the step from current_scale instead of target_scale
wheelEvent_from_current(v, delta, pos) ==
    IF ~HasImage(v) THEN v
    ELSE zoom_to(v, Scaled(v.current_scale, 100 + delta * ZOOM_STEP, 100), pos)

\* delta: e.angleDelta().y() / 120, in notches
wheelEvent(v, delta, pos) ==
    IF ~HasImage(v) THEN v
    ELSE zoom_to(v, Scaled(v.target_scale, 100 + delta * ZOOM_STEP, 100), pos)

\* mousePressEvent without the test of point_in_image
mousePressEvent_anywhere(v, button, pos) ==
    IF button = "LeftButton"
    THEN [Cached(v) EXCEPT !.is_panning = TRUE,
                           !.last_mouse_pos = pos,
                           !.pan_velocity = ZeroPt]
    ELSE IF button = "RightButton" THEN close_application(v)
    ELSE v

mousePressEvent(v, button, pos) ==
    IF button = "LeftButton"
    THEN IF point_in_image(v, pos)
         THEN [Cached(v) EXCEPT !.is_panning = TRUE,
                                !.last_mouse_pos = pos,
                                !.pan_velocity = ZeroPt]
         ELSE IF ~v.is_fullscreen THEN close_application(Cached(v)) ELSE Cached(v)
    ELSE IF button = "RightButton" THEN close_application(v)
    ELSE v

\* mouseMoveEvent without the update of last_mouse_pos
mouseMoveEvent_keeping_origin(v, pos) ==
    IF v.is_panning
    THEN LET delta == PtSub(pos, v.last_mouse_pos)
         IN  schedule_update(
               [v EXCEPT !.current_offset = PtAdd(v.current_offset, delta),
                         !.target_offset = PtAdd(v.current_offset, delta),
                         !.pan_velocity = PtScaled(delta, 6, 10)])
    ELSE v

\* mouseMoveEvent without the assignment of target_offset
mouseMoveEvent_keeping_target(v, pos) ==
    IF v.is_panning
    THEN LET delta == PtSub(pos, v.last_mouse_pos)
         IN  schedule_update(
               [v EXCEPT !.current_offset = PtAdd(v.current_offset, delta),
                         !.pan_velocity = PtScaled(delta, 6, 10),
                         !.last_mouse_pos = pos])
    ELSE v

mouseMoveEvent(v, pos) ==
    IF v.is_panning
    THEN LET delta == PtSub(pos, v.last_mouse_pos)
         IN  schedule_update(
               [v EXCEPT !.current_offset = PtAdd(v.current_offset, delta),
                         !.target_offset = PtAdd(v.current_offset, delta),
                         !.pan_velocity = PtScaled(delta, 6, 10),
                         !.last_mouse_pos = pos])
    ELSE v

mouseReleaseEvent(v, button) ==
    IF button = "LeftButton" THEN [v EXCEPT !.is_panning = FALSE] ELSE v

mouseDoubleClickEvent(v, pos) ==
    IF ~HasImage(v) THEN v
    ELSE IF v.is_fullscreen
    THEN LET d == _calculate_effective_dimensions(v)
         IN  IF d[1] > 0 /\ d[2] > 0
             THEN IF Abs(v.current_scale - FullscreenFit(v)) < ScaleOne \div 100
                  THEN zoom_to(v, ScaleOne, pos)
                  ELSE _fit_to_fullscreen(v)
             ELSE Cached(v)
    ELSE IF Abs(v.target_scale - v.fit_scale) < ScaleOne \div 100
         THEN zoom_to(v, ScaleOne, pos)
         ELSE fit_to_screen(v)

\* new_scale = target_scale * factor, factor = num / den; focus is screen_center
_keyboard_zoom(v, num, den) ==
    IF HasImage(v)
    THEN zoom_to(v, Scaled(v.target_scale, num, den), AvailCenter)
    ELSE v

Keys == {"Escape", "F11", "A", "D", "Plus", "Minus", "R", "F", "Space"}

keyPressEvent(v, key) ==
    CASE key = "Escape" -> close_application(v)
      [] key = "F11" -> toggle_fullscreen(v)
      [] key = "A" -> navigate_to_image(v, -1)
      [] key = "D" -> navigate_to_image(v, 1)
      [] key = "Plus" -> _keyboard_zoom(v, ZOOM_FACTOR, 100)
      [] key = "Minus" -> _keyboard_zoom(v, 100, ZOOM_FACTOR)
      [] key = "R" ->
           LET a == _invalidate_pixmap_cache(
                        [v EXCEPT !.rotation = (v.rotation + 90) % 360])
           IN  IF a.is_fullscreen THEN _fit_to_fullscreen_instant(a)
               ELSE fit_to_screen(a)
      [] key \in {"F", "Space"} ->
           IF v.is_fullscreen THEN _fit_to_fullscreen(v) ELSE fit_to_screen(v)
      [] OTHER -> v

-----------------------------------------------------------------------------
(* The timer tick, BlurViewer.animate, one block of the method per operator *)

animate_navigation(v) ==
    IF ~v.navigation_animation THEN v
    ELSE
      LET a == [v EXCEPT !.navigation_progress =
                             Min2(ProgOne, v.navigation_progress + NAVIGATION_SPEED)]
      IN  IF a.navigation_progress < ProgOne THEN a
          ELSE
            LET b == IF a.new_pixmap # NoPixmap
                     THEN _invalidate_pixmap_cache(
                              [a EXCEPT !.movie = NoPixmap,
                                        !.pixmap = a.new_pixmap,
                                        !.new_pixmap = NoPixmap])
                     ELSE a
                c == [b EXCEPT !.navigation_animation = FALSE,
                               !.old_pixmap = NoPixmap,
                               !.target_offset = AvailCenter]
                cp == _get_current_pixmap(c)
                fit == Min2(BoxScale(AvailW, AvailH, PixW(cp), PixH(cp), 9), ScaleOne)
            IN  IF cp # NoPixmap
                THEN [Cached(c) EXCEPT !.fit_scale = fit, !.target_scale = fit]
                ELSE Cached(c)

\* the opening block without the end test
animate_opening_unending(v) ==
    IF ~v.opening_animation THEN v
    ELSE [v EXCEPT
            !.opening_scale =
                Min2(ScaleOne, @ + Scaled(ScaleOne - @, 15, 100)),
            !.opening_opacity =
                Min2(ScaleOne, @ + Scaled(ScaleOne - @, 20, 100))]

animate_opening(v) ==
    IF ~v.opening_animation THEN v
    ELSE
      LET s == Min2(ScaleOne,
                    v.opening_scale + Scaled(ScaleOne - v.opening_scale, 15, 100))
          o == Min2(ScaleOne,
                    v.opening_opacity + Scaled(ScaleOne - v.opening_opacity, 20, 100))
      IN  IF s > Scaled(ScaleOne, 99, 100) /\ o > Scaled(ScaleOne, 99, 100)
          THEN [v EXCEPT !.opening_scale = ScaleOne,
                         !.opening_opacity = ScaleOne,
                         !.opening_animation = FALSE]
          ELSE [v EXCEPT !.opening_scale = s, !.opening_opacity = o]

animate_closing(v) ==
    IF ~v.closing_animation THEN v
    ELSE [v EXCEPT
            !.closing_scale = @ + Scaled(Scaled(ScaleOne, 7, 10) - @, 25, 100),
            !.closing_opacity = @ + Scaled(0 - @, 25, 100)]

BackgroundActive(v) ==
    Abs(v.target_background_opacity - v.background_opacity) > BG_EPS

animate_background(v) ==
    IF BackgroundActive(v)
    THEN [v EXCEPT !.background_opacity =
                       @ + Scaled(v.target_background_opacity - @, 15, 100)]
    ELSE v

InertiaActive(v) ==
    /\ ~v.is_panning
    /\ (Abs(v.pan_velocity.x) > VELOCITY_EPS \/ Abs(v.pan_velocity.y) > VELOCITY_EPS)

animate_inertia(v) ==
    IF InertiaActive(v)
    THEN [v EXCEPT !.target_offset = PtAdd(@, v.pan_velocity),
                   !.pan_velocity = PtScaled(@, PAN_FRICTION, 100)]
    ELSE v

ScaleActive(v) == Abs(v.target_scale - v.current_scale) > SCALE_EPS

OffsetActive(v) ==
    \/ Abs(v.target_offset.x - v.current_offset.x) > OFFSET_EPS
    \/ Abs(v.target_offset.y - v.current_offset.y) > OFFSET_EPS

animate_interpolation(v) ==
    LET scale_diff == v.target_scale - v.current_scale
        offset_diff == PtSub(v.target_offset, v.current_offset)
    IN  [v EXCEPT
           !.current_scale = IF ScaleActive(v)
                             THEN @ + Scaled(scale_diff, LERP_FACTOR, 100) ELSE @,
           !.current_offset = IF OffsetActive(v)
                              THEN PtAdd(@, PtScaled(offset_diff, LERP_FACTOR, 100))
                              ELSE @]

\* the widget as the blocks before the interpolation leave it
BeforeInterpolation(v) ==
    animate_inertia(animate_background(animate_closing(
        animate_opening(animate_navigation(v)))))

\* needs_update without the assignment in the background fade block
animate_needs_update_without_background(v) ==
    \/ v.navigation_animation
    \/ v.opening_animation
    \/ v.closing_animation
    \/ InertiaActive(v)
    \/ ScaleActive(BeforeInterpolation(v))
    \/ OffsetActive(BeforeInterpolation(v))

\* the value of the local needs_update when animate returns
animate_needs_update(v) ==
    \/ v.navigation_animation
    \/ v.opening_animation
    \/ v.closing_animation
    \/ BackgroundActive(v)
    \/ InertiaActive(v)
    \/ ScaleActive(BeforeInterpolation(v))
    \/ OffsetActive(BeforeInterpolation(v))

animate(v) ==
    LET a == animate_interpolation(BeforeInterpolation(v))
    IN  IF animate_needs_update(v) THEN schedule_update(a) ELSE a

-----------------------------------------------------------------------------
(* ImageLoader threads and the delivery of their signals *)

\* ImageLoader.run emits one signal; which one depends on the file's content.
Outcomes(path) ==
    IF IsAnimated(path) THEN {"animatedImageLoaded", "loadFailed"}
    ELSE {"imageLoaded", "loadFailed"}

\* A signal queued for the widget's thread. superseded: a later request was
\* issued after the one this signal answers.
Emitted(thread, sig) ==
    [sig |-> sig, slot |-> thread.slot, img |-> thread.path, superseded |-> FALSE]

\* The queue once navigate_to_image or load_image has replaced the loader:
\* quit() does not interrupt run(), wait() returns when run() has emitted.
AfterNewRequest(q, thread, sig) ==
    LET all == IF thread.running THEN Append(q, Emitted(thread, sig)) ELSE q
    IN  [i \in 1..Len(all) |-> [all[i] EXCEPT !.superseded = TRUE]]

\* The slot connected to the signal.
Slot(v, m) ==
    CASE m.sig = "loadFailed" -> _on_load_failed(v)
      [] m.sig = "imageLoaded" /\ m.slot = "load" -> _on_image_loaded(v, m.img)
      [] m.sig = "imageLoaded" /\ m.slot = "nav" -> _on_navigation_image_loaded(v, m.img)
      [] m.sig = "animatedImageLoaded" /\ m.slot = "load" ->
             _on_animated_image_loaded(v, m.img)
      [] m.sig = "animatedImageLoaded" /\ m.slot = "nav" ->
             _on_navigation_animated_loaded(v, m.img)

-----------------------------------------------------------------------------
(* Inputs of the model *)

Px(n) == n * PxOne

\* the centre of the window, a point of a fitted photo, a corner of the screen
Center == AvailCenter
Inside == Pt(Px(400), Px(300))
Corner == Pt(Px(10), Px(10))
\* 16.67 px right of the centre: a move from the centre to it leaves
\* pan_velocity = (10, 0)
Beside == Pt(AvailCenter.x + 1667, AvailCenter.y)
\* 381 px below the centre and 541 px right of it: on a fitted landscape
\* photo turned by 90 degrees the first is on the picture and the second is not
Below == Pt(AvailCenter.x, Px(900))
RightOf == Pt(Px(1500), AvailCenter.y)

\* requested scales of a direct zoom_to call: 0.01 and 50.0
RequestedScales == {ScaleOne \div 100, 50 * ScaleOne}

\* drag: the left button is down; the press was inside the image; the image
\* was at rest at the press and only moves and ticks followed; the pointer
\* position and current_offset at the press; the delta of the last move
NoDrag ==
    [down |-> FALSE, inside |-> FALSE, pure |-> FALSE, pos0 |-> ZeroPt,
     off0 |-> ZeroPt, last_delta |-> ZeroPt]

Op(name, pos) == [name |-> name, pos |-> pos, superseded |-> FALSE]

\* the gesture record after a handler that is not part of the gesture
Disturbed == IF drag.down THEN [drag EXCEPT !.pure = FALSE] ELSE drag

Init ==
    /\ \E path \in Files : viewer = load_image(BlurViewer__init__, path)
    /\ queue = << >>
    /\ op = Op("__init__", NonePt)
    /\ needs_update = FALSE
    /\ n_events = 0
    /\ n_ticks = 0
    /\ drag = NoDrag

-----------------------------------------------------------------------------
(* Actions.  `on` is the specification's bound on the input: an event is     *)
(* delivered only while it holds.                                            *)

ImageLoader_run ==
    /\ viewer.loading_thread.running
    /\ \E sig \in Outcomes(viewer.loading_thread.path) :
         queue' = Append(queue, Emitted(viewer.loading_thread, sig))
    /\ viewer' = [viewer EXCEPT !.loading_thread.running = FALSE]
    /\ UNCHANGED <<op, needs_update, n_events, n_ticks, drag>>

Deliver ==
    /\ queue # << >>
    /\ viewer' = Slot(viewer, Head(queue))
    /\ queue' = Tail(queue)
    /\ op' = [name |-> Head(queue).sig, pos |-> NonePt,
              superseded |-> Head(queue).superseded]
    /\ drag' = Disturbed
    /\ UNCHANGED <<needs_update, n_events, n_ticks>>

\* the timer fires, at most max times
Tick(max) ==
    /\ n_ticks < max
    /\ viewer' = animate(viewer)
    /\ needs_update' = animate_needs_update(viewer)
    /\ op' = Op("animate", NonePt)
    /\ n_ticks' = n_ticks + 1
    /\ UNCHANGED <<queue, n_events, drag>>

\* the timer fires, any number of times; the count stops at max
Settle(max) ==
    /\ viewer' = animate(viewer)
    /\ needs_update' = animate_needs_update(viewer)
    /\ op' = Op("animate", NonePt)
    /\ n_ticks' = Min2(n_ticks + 1, max)
    /\ UNCHANGED <<queue, n_events, drag>>

Wheel(on, deltas, points) ==
    /\ on
    /\ \E delta \in deltas, pos \in points :
         /\ viewer' = wheelEvent(viewer, delta, pos)
         /\ op' = Op("wheelEvent", pos)
    /\ n_events' = n_events + 1
    /\ drag' = Disturbed
    /\ UNCHANGED <<queue, needs_update, n_ticks>>

ZoomTo(on, scales, points) ==
    /\ on
    /\ \E s \in scales, pos \in points :
         /\ viewer' = zoom_to(viewer, s, pos)
         /\ op' = Op("zoom_to", pos)
    /\ n_events' = n_events + 1
    /\ drag' = Disturbed
    /\ UNCHANGED <<queue, needs_update, n_ticks>>

DoubleClick(on, points) ==
    /\ on
    /\ ~drag.down
    /\ \E pos \in points :
         /\ viewer' = mouseDoubleClickEvent(viewer, pos)
         /\ op' = Op("mouseDoubleClickEvent", pos)
    /\ n_events' = n_events + 1
    /\ drag' = Disturbed
    /\ UNCHANGED <<queue, needs_update, n_ticks>>

\* keys other than A and D
Key(on, keys) ==
    /\ on
    /\ \E key \in keys \ {"A", "D"} :
         /\ viewer' = keyPressEvent(viewer, key)
         /\ op' = Op(key, NonePt)
    /\ n_events' = n_events + 1
    /\ drag' = Disturbed
    /\ UNCHANGED <<queue, needs_update, n_ticks>>

\* keys A and D: navigate_to_image(-1), navigate_to_image(1)
Navigate(on, keys) ==
    /\ on
    /\ \E key \in keys \cap {"A", "D"}, sig \in Outcomes(viewer.loading_thread.path) :
         /\ viewer' = keyPressEvent(viewer, key)
         /\ queue' = IF NavigationRejected(viewer, IF key = "A" THEN -1 ELSE 1)
                     THEN queue
                     ELSE AfterNewRequest(queue, viewer.loading_thread, sig)
         /\ op' = Op(key, NonePt)
    /\ n_events' = n_events + 1
    /\ drag' = Disturbed
    /\ UNCHANGED <<needs_update, n_ticks>>

\* dropEvent: load_image(path)
Drop(on, paths) ==
    /\ on
    /\ \E path \in paths, sig \in Outcomes(viewer.loading_thread.path) :
         /\ viewer' = load_image(viewer, path)
         /\ queue' = AfterNewRequest(queue, viewer.loading_thread, sig)
         /\ op' = Op("dropEvent", NonePt)
    /\ n_events' = n_events + 1
    /\ drag' = Disturbed
    /\ UNCHANGED <<needs_update, n_ticks>>

Press(on, points) ==
    /\ on
    /\ ~drag.down
    /\ \E pos \in points :
         /\ viewer' = mousePressEvent(viewer, "LeftButton", pos)
         /\ op' = Op("mousePressEvent", pos)
         /\ drag' = [down |-> TRUE,
                     inside |-> point_in_image(viewer, pos),
                     pure |-> ~viewer.navigation_animation /\ ~OffsetActive(viewer),
                     pos0 |-> pos, off0 |-> viewer.current_offset,
                     last_delta |-> ZeroPt]
    /\ n_events' = n_events + 1
    /\ UNCHANGED <<queue, needs_update, n_ticks>>

Move(on, points) ==
    /\ on
    /\ \E pos \in points :
         /\ viewer' = mouseMoveEvent(viewer, pos)
         /\ op' = Op("mouseMoveEvent", pos)
         /\ drag' = IF drag.down
                    THEN [drag EXCEPT !.last_delta = PtSub(pos, viewer.last_mouse_pos)]
                    ELSE drag
    /\ n_events' = n_events + 1
    /\ UNCHANGED <<queue, needs_update, n_ticks>>

Release(on) ==
    /\ on
    /\ drag.down
    /\ viewer' = mouseReleaseEvent(viewer, "LeftButton")
    /\ op' = Op("mouseReleaseEvent", NonePt)
    /\ drag' = [drag EXCEPT !.down = FALSE]
    /\ n_events' = n_events + 1
    /\ UNCHANGED <<queue, needs_update, n_ticks>>

RightPress(on) ==
    /\ on
    /\ viewer' = mousePressEvent(viewer, "RightButton", Center)
    /\ op' = Op("RightButton", Center)
    /\ n_events' = n_events + 1
    /\ drag' = Disturbed
    /\ UNCHANGED <<queue, needs_update, n_ticks>>

\* the single-shot timer of schedule_update fires, at most max times
DoUpdate(max) ==
    /\ viewer.update_timers > 0
    /\ viewer.updates < max
    /\ viewer' = _do_update(viewer)
    /\ op' = Op("_do_update", NonePt)
    /\ UNCHANGED <<queue, needs_update, n_events, n_ticks, drag>>

-----------------------------------------------------------------------------
(* Zooming: wheel, keyboard, double click, zoom_to, fullscreen and rotation *)

ZoomOn == n_events < MaxZoomEvents

NextZoom ==
    \/ ImageLoader_run
    \/ Deliver
    \/ Tick(MaxZoomTicks)
    \/ Wheel(ZoomOn, {-1, 1}, {Center, Inside, Corner})
    \/ ZoomTo(ZoomOn, RequestedScales, {Inside, NonePt})
    \/ DoubleClick(ZoomOn, {Inside})
    \/ Key(ZoomOn, {"F11", "Plus", "Minus", "R"})

SpecZoom == Init /\ [][NextZoom]_vars

(* Navigation: A and D, file drops, fullscreen *)

NavOn == n_events < MaxNavEvents

NextNav ==
    \/ ImageLoader_run
    \/ Deliver
    \/ Tick(MaxNavTicks)
    \/ Navigate(NavOn, {"A", "D"})
    \/ Drop(NavOn, {1, 2})
    \/ Key(NavOn, {"F11"})

SpecNav == Init /\ [][NextNav]_vars

(* Panning: drag gestures over a photo, with a wheel step before them *)

PanOn == n_events < MaxPanEvents

NextPan ==
    \/ ImageLoader_run
    \/ Deliver
    \/ Tick(MaxPanTicks)
    \/ Wheel(PanOn /\ ~drag.down /\ n_events = 0, {1}, {Inside})
    \/ Press(PanOn, {Center, Corner})
    \/ Move(PanOn, {Center, Beside, Inside})
    \/ Release(PanOn)

SpecPan == Init /\ [][NextPan]_vars

(* Settling: input arrives while an image is shown, during the first ticks; *)
(* then the timer runs on                                                  *)

SettleOn ==
    n_events < MaxSettleEvents /\ n_ticks < MaxSettleTicks /\ HasImage(viewer)

NextSettle ==
    \/ ImageLoader_run
    \/ Deliver
    \/ Settle(MaxSettleTicks)
    \/ Wheel(SettleOn, {-1, 1}, {Inside})
    \/ Press(SettleOn, {Center})
    \/ Move(SettleOn, {Beside})
    \/ Release(SettleOn)
    \/ Navigate(SettleOn, {"D"})
    \/ Key(SettleOn, {"Escape"})

SpecSettle == Init /\ [][NextSettle]_vars

-----------------------------------------------------------------------------
(* Repainting: ticks, moves and loads schedule repaints, the timer runs them *)

RepaintOn == n_events < MaxRepaintEvents

NextRepaint ==
    \/ ImageLoader_run
    \/ Deliver
    \/ Tick(MaxRepaintTicks)
    \/ DoUpdate(MaxUpdates)
    \/ Press(RepaintOn, {Center})
    \/ Move(RepaintOn, {Beside})
    \/ Key(RepaintOn, {"F11", "R"})

SpecRepaint == Init /\ [][NextRepaint]_vars

-----------------------------------------------------------------------------
(* Closing: Escape, right click, click outside the image *)

CloseOn == n_events < MaxCloseEvents

NextClose ==
    \/ ImageLoader_run
    \/ Deliver
    \/ Tick(MaxCloseTicks)
    \/ Key(CloseOn, {"Escape", "F11"})
    \/ RightPress(CloseOn)
    \/ Press(CloseOn, {Center, Corner})
    \/ Release(CloseOn)

SpecClose == Init /\ [][NextClose]_vars

-----------------------------------------------------------------------------
(* Slides: rotation, fullscreen and navigation, then ticks until all is still *)

SlideOn == n_events < MaxSlideEvents /\ n_ticks < MaxSlideTicks /\ HasImage(viewer)

NextSlide ==
    \/ ImageLoader_run
    \/ Deliver
    \/ Settle(MaxSlideTicks)
    \/ Key(SlideOn, {"R", "F11"})
    \/ Navigate(SlideOn, {"D"})

SpecSlide == Init /\ [][NextSlide]_vars

-----------------------------------------------------------------------------
(* Input while no image is shown: before the first image has loaded, after a *)
(* failed load, and after load_image has stopped the movie of an animated    *)
(* image.  A file is dropped with the pointer, so not while a button is held *)
(* down on the window.                                                       *)

EmptyOn == n_events < MaxEmptyEvents

NextEmpty ==
    \/ ImageLoader_run
    \/ Deliver
    \/ Wheel(EmptyOn, {-1, 1}, {Center})
    \/ ZoomTo(EmptyOn, RequestedScales, {Center, NonePt})
    \/ DoubleClick(EmptyOn, {Center})
    \/ Key(EmptyOn, {"Plus", "Minus", "F", "R", "F11"})
    \/ Press(EmptyOn, {Center})
    \/ Move(EmptyOn, {Beside})
    \/ Release(EmptyOn)
    \/ Drop(EmptyOn /\ ~drag.down, {1})

SpecEmpty == Init /\ [][NextEmpty]_vars

-----------------------------------------------------------------------------
(* Fitting: F, the spacebar, rotation and double click, with a wheel step and *)
(* fullscreen around them.  Input arrives during the first ticks after the   *)
(* start, or once the view has come to rest.                                 *)

\* a tick would request no repaint
AtRest(v) == ~animate_needs_update(v)

FitOn == n_events < MaxFitEvents /\ (n_ticks < MaxFitTicks \/ AtRest(viewer))

NextFit ==
    \/ ImageLoader_run
    \/ Deliver
    \/ Settle(MaxFitTicks)
    \/ Key(FitOn, {"F", "Space", "R", "F11"})
    \/ DoubleClick(FitOn, {Inside, Corner})
    \/ Wheel(FitOn, {1}, {Inside})

SpecFit == Init /\ [][NextFit]_vars

-----------------------------------------------------------------------------
(* Rotation and the pointer: R, then presses on and beside the turned image *)

RotateOn == n_events < MaxRotateEvents

NextRotate ==
    \/ ImageLoader_run
    \/ Deliver
    \/ Tick(MaxRotateTicks)
    \/ Key(RotateOn, {"R"})
    \/ Press(RotateOn, {Center, Below, RightOf})
    \/ Release(RotateOn)

SpecRotate == Init /\ [][NextRotate]_vars

-----------------------------------------------------------------------------
(* Directories: the viewer is started on a file whose directory lists no    *)
(* image, one image, or several, with or without the file itself            *)

Directories == {<< >>, <<1>>, <<1, 2>>, <<2, 3>>, <<1, 2, 3>>}

InitDirectory ==
    /\ \E path \in Files, files \in Directories :
         viewer = [load_image(BlurViewer__init__, path) EXCEPT
                       !.image_files = files,
                       !.current_index = IndexOf(files, path)]
    /\ queue = << >>
    /\ op = Op("__init__", NonePt)
    /\ needs_update = FALSE
    /\ n_events = 0
    /\ n_ticks = 0
    /\ drag = NoDrag

DirectoryOn == n_events < MaxDirectoryEvents

NextDirectory ==
    \/ ImageLoader_run
    \/ Deliver
    \/ Tick(MaxDirectoryTicks)
    \/ Navigate(DirectoryOn, {"A", "D"})
    \/ Key(DirectoryOn, {"F11"})

SpecDirectory == InitDirectory /\ [][NextDirectory]_vars

-----------------------------------------------------------------------------
(* The opening animation on its own: the block of animate that advances it   *)
(* is a function of opening_scale and opening_opacity alone, so it is run    *)
(* from a grid of values in [0, 1] around a shown photo.  __init__ and       *)
(* _setup_image_display start it at (0.8, 0), load_image at (0.95, 0.2).     *)

OpeningLevels ==
    {0, ScaleOne \div 4, ScaleOne \div 2, Scaled(ScaleOne, 8, 10),
     Scaled(ScaleOne, 95, 100), Scaled(ScaleOne, 99, 100), ScaleOne}

\* the widget once the loader's imageLoaded(pixmap) has been handled
Shown(path) ==
    [_on_image_loaded(load_image(BlurViewer__init__, path), path)
        EXCEPT !.loading_thread.running = FALSE]

InitOpening ==
    /\ \E path \in {1, 2}, s \in OpeningLevels, o \in OpeningLevels :
         viewer = [Shown(path) EXCEPT !.opening_animation = TRUE,
                                      !.opening_scale = s,
                                      !.opening_opacity = o]
    /\ queue = << >>
    /\ op = Op("__init__", NonePt)
    /\ needs_update = FALSE
    /\ n_events = 0
    /\ n_ticks = 0
    /\ drag = NoDrag

OpeningOn == n_events < MaxOpeningEvents

NextOpening ==
    \/ Tick(MaxOpeningTicks)
    \/ Wheel(OpeningOn, {1}, {Center})

SpecOpening == InitOpening /\ [][NextOpening]_vars

-----------------------------------------------------------------------------
(* ImageLoader.run on its own, statement block by statement block, over the *)
(* files it can meet.  In SpecLoader `viewer` is the loader thread (the file *)
(* it was given and its position in run) and `queue` the signals emitted.    *)

\* exists: os.path.exists; header: what the first bytes say ("unreadable":
\* open raises); animated_suffix: the suffix is in ANIMATED_EXTENSIONS;
\* movie: QMovie(path).isValid(); first_frame: jumpToFrame(0) and
\* currentPixmap(); decode: _load_image_comprehensive returns a pixmap,
\* returns None or a null pixmap, or raises
LoaderFiles ==
    [exists : BOOLEAN,
     header : {"image", "video", "unreadable"},
     animated_suffix : BOOLEAN,
     movie : {"valid", "invalid"},
     first_frame : {"ok", "null", "raises"},
     decode : {"ok", "null", "raises"}]

\* run without the return after the video-header loadFailed
ImageLoader_run_block_without_return(t) ==
    LET f == t.file
        go(pc) == [pc |-> pc, emitted |-> << >>]
        emit(sig, pc) == [pc |-> pc, emitted |-> <<sig>>]
    IN  CASE t.pc = "exists" ->
               IF ~f.exists THEN emit("loadFailed", "returned") ELSE go("header")
          [] t.pc = "header" ->
               IF f.header = "video" THEN emit("loadFailed", "animated")
               ELSE go("animated")
          [] t.pc = "animated" ->
               IF f.animated_suffix /\ f.movie = "valid" /\ f.first_frame = "ok"
               THEN emit("animatedImageLoaded", "returned")
               ELSE go("static")
          [] t.pc = "static" ->
               IF f.decode = "ok" THEN emit("imageLoaded", "returned")
               ELSE IF f.decode = "null" THEN emit("loadFailed", "returned")
               ELSE go("except")
          [] t.pc = "except" -> emit("loadFailed", "returned")
          [] OTHER -> go(t.pc)

\* one block of ImageLoader.run: where it goes next and what it emits
ImageLoader_run_block(t) ==
    LET f == t.file
        go(pc) == [pc |-> pc, emitted |-> << >>]
        emit(sig, pc) == [pc |-> pc, emitted |-> <<sig>>]
    IN  CASE t.pc = "exists" ->
               IF ~f.exists THEN emit("loadFailed", "returned") ELSE go("header")
          [] t.pc = "header" ->
               \* an exception while reading the header is passed over
               IF f.header = "video" THEN emit("loadFailed", "returned")
               ELSE go("animated")
          [] t.pc = "animated" ->
               \* an invalid movie, a null first frame and an exception while
               \* fetching it all fall through to the static load
               IF f.animated_suffix /\ f.movie = "valid" /\ f.first_frame = "ok"
               THEN emit("animatedImageLoaded", "returned")
               ELSE go("static")
          [] t.pc = "static" ->
               IF f.decode = "ok" THEN emit("imageLoaded", "returned")
               ELSE IF f.decode = "null" THEN emit("loadFailed", "returned")
               ELSE go("except")
          [] t.pc = "except" -> emit("loadFailed", "returned")
          [] OTHER -> go(t.pc)

InitLoader ==
    /\ \E f \in LoaderFiles : viewer = [file |-> f, pc |-> "exists"]
    /\ queue = << >>
    /\ op = Op("__init__", NonePt)
    /\ needs_update = FALSE
    /\ n_events = 0
    /\ n_ticks = 0
    /\ drag = NoDrag

RunBlock ==
    /\ viewer.pc # "returned"
    /\ viewer' = [viewer EXCEPT !.pc = ImageLoader_run_block(viewer).pc]
    /\ queue' = queue \o ImageLoader_run_block(viewer).emitted
    /\ UNCHANGED <<op, needs_update, n_events, n_ticks, drag>>

NextLoader == RunBlock

SpecLoader == InitLoader /\ [][NextLoader]_vars

-----------------------------------------------------------------------------
(* ImageCache of BlurViewer_Optimized.py, shared without a lock by the main  *)
(* thread (get in navigate_to_image and load_image, put in the load slots)   *)
(* and by the PreloadWorker runnables of the thread pool.  Threads interleave *)
(* between the statements of get and put.  A pixmap is identified by its     *)
(* path, so the dict `cache` is the set of its keys.                         *)

\* ImageCache(max_size): small enough for three files to make it evict
CacheMaxSize == 2

Threads == {"main", "pool"}

IdleThread == [pc |-> "idle", path |-> 0, lru_path |-> 0]

OptimizedImageViewer__init__ ==
    [ image_cache |-> [cache |-> {}, access_order |-> << >>],
      threads |-> [t \in Threads |-> IdleThread],
      \* a statement of get or put has raised
      raised |-> FALSE ]

\* list.remove(x): the list without the first x
ListRemove(l, x) ==
    LET i == CHOOSE j \in 1..Len(l) : l[j] = x /\ \A k \in 1..(j - 1) : l[k] # x
    IN  SubSeq(l, 1, i - 1) \o SubSeq(l, i + 1, Len(l))

Elements(l) == {l[i] : i \in 1..Len(l)}

\* one statement of ImageCache.put(path, pixmap) by thread t
ImageCache_put(v, t) ==
    LET th == v.threads[t]
        c == v.image_cache
        to(pc) == [v EXCEPT !.threads[t].pc = pc]
        raise == [v EXCEPT !.threads[t] = IdleThread, !.raised = TRUE]
    IN  CASE th.pc = "put" ->
               IF th.path \in c.cache THEN to("put_remove")
               ELSE IF Cardinality(c.cache) >= CacheMaxSize THEN to("put_pop")
               ELSE to("put_store")
          [] th.pc = "put_remove" ->
               IF th.path \in Elements(c.access_order)
               THEN [to("put_store") EXCEPT
                       !.image_cache.access_order = ListRemove(@, th.path)]
               ELSE raise
          [] th.pc = "put_pop" ->
               IF c.access_order # << >>
               THEN [to("put_del") EXCEPT
                       !.image_cache.access_order = Tail(@),
                       !.threads[t].lru_path = Head(c.access_order)]
               ELSE raise
          [] th.pc = "put_del" ->
               IF th.lru_path \in c.cache
               THEN [to("put_store") EXCEPT !.image_cache.cache = @ \ {th.lru_path}]
               ELSE raise
          [] th.pc = "put_store" ->
               [to("put_append") EXCEPT !.image_cache.cache = @ \cup {th.path}]
          [] th.pc = "put_append" ->
               [v EXCEPT !.image_cache.access_order = Append(@, th.path),
                         !.threads[t] = IdleThread]
          [] OTHER -> v

\* one statement of ImageCache.get(path) by thread t
ImageCache_get(v, t) ==
    LET th == v.threads[t]
        c == v.image_cache
        to(pc) == [v EXCEPT !.threads[t].pc = pc]
        raise == [v EXCEPT !.threads[t] = IdleThread, !.raised = TRUE]
    IN  CASE th.pc = "get" ->
               IF th.path \in c.cache THEN to("get_remove")
               ELSE [v EXCEPT !.threads[t] = IdleThread]
          [] th.pc = "get_remove" ->
               IF th.path \in Elements(c.access_order)
               THEN [to("get_append") EXCEPT
                       !.image_cache.access_order = ListRemove(@, th.path)]
               ELSE raise
          [] th.pc = "get_append" ->
               [to("get_return") EXCEPT
                  !.image_cache.access_order = Append(@, th.path)]
          [] th.pc = "get_return" ->
               IF th.path \in c.cache THEN [v EXCEPT !.threads[t] = IdleThread]
               ELSE raise
          [] OTHER -> v

\* PreloadWorker.run for one path: decode it unless it is cached, then put
\* it; the except clause swallows what put raises, the cache stays as it is
PreloadWorker_run(v, path) ==
    IF path \notin v.image_cache.cache
    THEN [v EXCEPT !.threads["pool"] = [pc |-> "put", path |-> path, lru_path |-> 0]]
    ELSE v

InitCache ==
    /\ viewer = OptimizedImageViewer__init__
    /\ queue = << >>
    /\ op = Op("__init__", NonePt)
    /\ needs_update = FALSE
    /\ n_events = 0
    /\ n_ticks = 0
    /\ drag = NoDrag

\* the main thread calls image_cache.get or image_cache.put
MainCall ==
    /\ n_events < MaxCacheCalls
    /\ viewer.threads["main"].pc = "idle"
    /\ \E call \in {"get", "put"}, path \in Files :
         viewer' = [viewer EXCEPT
                      !.threads["main"] = [pc |-> call, path |-> path, lru_path |-> 0]]
    /\ n_events' = n_events + 1
    /\ UNCHANGED <<queue, op, needs_update, n_ticks, drag>>

\* a pool thread takes the next path of a PreloadWorker
PoolCall ==
    /\ n_events < MaxCacheCalls
    /\ viewer.threads["pool"].pc = "idle"
    /\ \E path \in Files : viewer' = PreloadWorker_run(viewer, path)
    /\ n_events' = n_events + 1
    /\ UNCHANGED <<queue, op, needs_update, n_ticks, drag>>

\* a thread executes the next statement of its call
CacheStep ==
    /\ \E t \in Threads :
         /\ viewer.threads[t].pc # "idle"
         /\ viewer' = IF viewer.threads[t].pc \in {"get", "get_remove", "get_append",
                                                   "get_return"}
                       THEN ImageCache_get(viewer, t)
                       ELSE ImageCache_put(viewer, t)
    /\ UNCHANGED <<queue, op, needs_update, n_events, n_ticks, drag>>

NextCache == MainCall \/ PoolCall \/ CacheStep

SpecCache == InitCache /\ [][NextCache]_vars

-----------------------------------------------------------------------------
(* ImageCache used by one thread: whole calls of get, put and clear.  Here  *)
(* the dict `cache` is a function from paths to pixmaps, and a pixmap is one *)
(* of two decodings of its file, so that a replaced value can be told from   *)
(* the value it replaces.                                                    *)

Pixmaps == {1, 2}

\* Python's None
None == 0

EmptyDict == [k \in {} |-> None]

\* d[key] = value
DictSet(d, key, value) ==
    [k \in DOMAIN d \cup {key} |-> IF k = key THEN value ELSE d[k]]

\* del d[key]
DictDel(d, key) == [k \in DOMAIN d \ {key} |-> d[k]]

\* ImageCache.__init__: cache, access_order; returned: what the last call
\* returned; raised: a statement of a call has raised
ImageCache__init__ ==
    [cache |-> EmptyDict, access_order |-> << >>, returned |-> None, raised |-> FALSE]

\* get without the move of the path to the end of access_order
ImageCache_get_call_without_touch(c, path) ==
    IF path \in DOMAIN c.cache
    THEN [c EXCEPT !.returned = c.cache[path]]
    ELSE [c EXCEPT !.returned = None]

ImageCache_get_call(c, path) ==
    IF path \in DOMAIN c.cache
    THEN IF path \in Elements(c.access_order)
         THEN [c EXCEPT !.access_order = Append(ListRemove(@, path), path),
                        !.returned = c.cache[path]]
         ELSE [c EXCEPT !.raised = TRUE, !.returned = None]
    ELSE [c EXCEPT !.returned = None]

\* put without the eviction branch
ImageCache_put_call_without_eviction(c, path, pixmap) ==
    LET a == IF path \in DOMAIN c.cache
             THEN [c EXCEPT !.access_order = ListRemove(@, path)]
             ELSE c
    IN  [a EXCEPT !.cache = DictSet(@, path, pixmap),
                  !.access_order = Append(@, path),
                  !.returned = None]

ImageCache_put_call(c, path, pixmap) ==
    LET stored(a) == [a EXCEPT !.cache = DictSet(@, path, pixmap),
                               !.access_order = Append(@, path),
                               !.returned = None]
        failed == [c EXCEPT !.raised = TRUE, !.returned = None]
    IN  IF path \in DOMAIN c.cache
        THEN IF path \in Elements(c.access_order)
             THEN stored([c EXCEPT !.access_order = ListRemove(@, path)])
             ELSE failed
        ELSE IF Cardinality(DOMAIN c.cache) >= CacheMaxSize
        THEN IF c.access_order # << >> /\ Head(c.access_order) \in DOMAIN c.cache
             THEN stored([c EXCEPT !.access_order = Tail(@),
                                   !.cache = DictDel(@, Head(c.access_order))])
             ELSE failed
        ELSE stored(c)

ImageCache_clear(c) ==
    [c EXCEPT !.cache = EmptyDict, !.access_order = << >>, !.returned = None]

\* last_use[path]: the number of the last get hit or put of the path, 0 if
\* there was none; call: the call made last
InitLru ==
    /\ viewer = [image_cache |-> ImageCache__init__,
                 last_use |-> [k \in Files |-> 0],
                 call |-> [name |-> "__init__", path |-> 0, pixmap |-> None]]
    /\ queue = << >>
    /\ op = Op("__init__", NonePt)
    /\ needs_update = FALSE
    /\ n_events = 0
    /\ n_ticks = 0
    /\ drag = NoDrag

Get ==
    /\ n_events < MaxLruCalls
    /\ \E path \in Files :
         viewer' = [viewer EXCEPT
             !.image_cache = ImageCache_get_call(@, path),
             !.last_use[path] = IF path \in DOMAIN viewer.image_cache.cache
                                THEN n_events + 1 ELSE @,
             !.call = [name |-> "get", path |-> path, pixmap |-> None]]
    /\ n_events' = n_events + 1
    /\ UNCHANGED <<queue, op, needs_update, n_ticks, drag>>

Put ==
    /\ n_events < MaxLruCalls
    /\ \E path \in Files, pixmap \in Pixmaps :
         viewer' = [viewer EXCEPT
             !.image_cache = ImageCache_put_call(@, path, pixmap),
             !.last_use[path] = n_events + 1,
             !.call = [name |-> "put", path |-> path, pixmap |-> pixmap]]
    /\ n_events' = n_events + 1
    /\ UNCHANGED <<queue, op, needs_update, n_ticks, drag>>

Clear ==
    /\ n_events < MaxLruCalls
    /\ viewer' = [viewer EXCEPT
           !.image_cache = ImageCache_clear(@),
           !.call = [name |-> "clear", path |-> 0, pixmap |-> None]]
    /\ n_events' = n_events + 1
    /\ UNCHANGED <<queue, op, needs_update, n_ticks, drag>>

NextLru == Get \/ Put \/ Clear

SpecLru == InitLru /\ [][NextLru]_vars

-----------------------------------------------------------------------------
(* Properties *)

\* the handlers that call zoom_to unconditionally, and the focus they pass
ZoomHandlers == {"wheelEvent", "zoom_to", "Plus", "Minus"}

Focus == IF op.name \in {"Plus", "Minus"} THEN AvailCenter ELSE op.pos

\* The image-space coordinate, in PxOne units of image pixels from the image
\* centre, of the point shown at screen distance d from the image centre.
ImageCoordinate(d, scale) == MulDiv(d, ScaleOne, scale)

\* One fixed-point unit of target_offset seen in image space, plus the
\* truncation of the coordinate itself.
ImageTolerance(scale) == (ScaleOne \div scale) + 1

\* C1: after zoom_to with a focus point inside the image's on-screen bounds,
\* the image-space point under the focus is the same for the current transform
\* (current_offset, current_scale) and for the target transform
\* (target_offset, target_scale), to within the arithmetic's rounding.
C1_ZoomKeepsFocus ==
    (/\ op.name \in ZoomHandlers
     /\ HasImage(viewer)
     /\ Focus # NonePt
     /\ point_in_image(viewer, Focus))
    => LET cur == viewer.current_offset
           tgt == viewer.target_offset
           tol == ImageTolerance(viewer.target_scale)
       IN  /\ Abs(ImageCoordinate(Focus.x - cur.x, viewer.current_scale)
                  - ImageCoordinate(Focus.x - tgt.x, viewer.target_scale)) <= tol
           /\ Abs(ImageCoordinate(Focus.y - cur.y, viewer.current_scale)
                  - ImageCoordinate(Focus.y - tgt.y, viewer.target_scale)) <= tol

\* C1 witness: a wheel step over a point of the image away from its centre,
\* while the displayed scale still lags the target.
C1_Witness ==
    /\ op.name = "wheelEvent"
    /\ HasImage(viewer)
    /\ point_in_image(viewer, op.pos)
    /\ op.pos # viewer.current_offset
    /\ viewer.target_offset # viewer.current_offset
    /\ n_ticks > 0

\* C2: with an image loaded, current_scale and target_scale are within
\* [MIN_SCALE, MAX_SCALE] after every tick.
C2_ScaleBounds ==
    (op.name = "animate" /\ HasImage(viewer))
    => /\ MIN_SCALE <= viewer.current_scale /\ viewer.current_scale <= MAX_SCALE
       /\ MIN_SCALE <= viewer.target_scale /\ viewer.target_scale <= MAX_SCALE

\* C6 as claimed: in fullscreen mode with an image loaded, zoom_to leaves
\* target_scale at or above the fullscreen fit scale of the current image and
\* rotation.
C6_FullscreenFloor ==
    (op.name \in ZoomHandlers /\ viewer.is_fullscreen /\ HasImage(viewer))
    => viewer.target_scale >= FullscreenFit(viewer)

\* C6 as amended: in fullscreen mode with an image loaded, zoom_to leaves
\* target_scale at or above the smaller of the fullscreen fit scale and
\* MAX_SCALE.
C6_FullscreenFloorClamped ==
    (op.name \in ZoomHandlers /\ viewer.is_fullscreen /\ HasImage(viewer))
    => viewer.target_scale >= Min2(FullscreenFit(viewer), MAX_SCALE)

\* C6 witness: zoom_to(0.01) in fullscreen mode, raised to the fit scale of
\* the photo.
C6_Witness ==
    /\ op.name = "zoom_to"
    /\ viewer.is_fullscreen
    /\ viewer.pixmap = 1
    /\ viewer.target_scale = FullscreenFit(viewer)
    /\ viewer.target_scale < MAX_SCALE

\* a tick that requested no repaint, with an image shown and no button held:
\* every later tick without input leaves the widget as it is
Idle ==
    /\ op.name = "animate"
    /\ ~needs_update
    /\ HasImage(viewer)
    /\ ~viewer.is_panning

\* C3: ticks without input reach current_scale = target_scale exactly; once
\* the ticks request no repaint any more, the two are equal.
C3_ScaleReachesTarget == Idle => viewer.current_scale = viewer.target_scale

\* C4: navigate_to_image, in either direction, while navigation_animation is
\* true leaves current_index, navigation_progress, navigation_direction,
\* old_pixmap and the loader thread as they were, and issues no request.
C4_NavigationNoReentry ==
    [][(Navigate(NavOn, {"A", "D"}) /\ viewer.navigation_animation)
       => /\ viewer'.current_index = viewer.current_index
          /\ viewer'.navigation_progress = viewer.navigation_progress
          /\ viewer'.navigation_direction = viewer.navigation_direction
          /\ viewer'.old_pixmap = viewer.old_pixmap
          /\ viewer'.loading_thread = viewer.loading_thread
          /\ viewer'.navigation_animation
          /\ queue' = queue]_vars

\* C4 witness: A or D pressed while a slide was under way, which goes on.
C4_Witness ==
    /\ op.name \in {"A", "D"}
    /\ viewer.navigation_animation
    /\ viewer.navigation_progress > 0

\* C5: the result of a request that a later request has superseded is
\* discarded when it is delivered: pixmap, movie and new_pixmap stay as they
\* were.
C5_StaleResultDiscarded ==
    [][(/\ Deliver
        /\ Head(queue).superseded
        /\ Head(queue).sig # "loadFailed")
       => /\ viewer'.pixmap = viewer.pixmap
          /\ viewer'.movie = viewer.movie
          /\ viewer'.new_pixmap = viewer.new_pixmap]_vars

\* the move deltas of the gesture sum to (0,0): the pointer is back where the
\* button went down
ZeroSumDrag ==
    /\ op.name = "mouseReleaseEvent"
    /\ drag.inside
    /\ viewer.last_mouse_pos = drag.pos0

\* C7 as claimed: a drag that starts inside the image and whose move deltas
\* sum to (0,0) leaves current_offset as it was before the press and
\* pan_velocity = (0,0).
C7_ZeroSumDrag ==
    ZeroSumDrag => /\ viewer.current_offset = drag.off0
                   /\ viewer.pan_velocity = ZeroPt

\* C7 as amended: a drag that starts inside the image while no slide and no
\* offset convergence is under way, made of moves only, and whose move deltas
\* sum to (0,0), leaves current_offset as it was before the press and
\* pan_velocity at 0.6 times the delta of the last move ((0,0) if there was
\* none).
C7_ZeroSumDragAtRest ==
    (ZeroSumDrag /\ drag.pure)
    => /\ viewer.current_offset = drag.off0
       /\ viewer.pan_velocity = PtScaled(drag.last_delta, 6, 10)

\* C7 witness: a drag out and back, released where it started.
C7_Witness ==
    /\ ZeroSumDrag
    /\ drag.pure
    /\ drag.last_delta # ZeroPt

\* C8: after the release of a drag the inertia decays until pan_velocity is
\* exactly (0,0); once the ticks request no repaint any more, it is.
C8_InertiaStopsAtZero == (Idle /\ ~drag.down) => viewer.pan_velocity = ZeroPt

\* C9: a load failure reported while a slide is active aborts the slide:
\* navigation_animation is false, old_pixmap and new_pixmap are None, the image
\* shown stays, and no exit is scheduled when an image is shown.
C9_FailureAbortsSlide ==
    [][(/\ Deliver
        /\ Head(queue).sig = "loadFailed"
        /\ viewer.navigation_animation)
       => /\ ~viewer'.navigation_animation
          /\ viewer'.old_pixmap = NoPixmap
          /\ viewer'.new_pixmap = NoPixmap
          /\ viewer'.pixmap = viewer.pixmap
          /\ viewer'.movie = viewer.movie
          /\ (HasImage(viewer) => viewer'.quit_timers = viewer.quit_timers)]_vars

\* C9 witness: a failure has stopped a slide part-way, the image is shown and
\* no exit is scheduled.
C9_Witness ==
    /\ op.name = "loadFailed"
    /\ ~viewer.navigation_animation
    /\ viewer.navigation_direction # 0
    /\ viewer.navigation_progress > 0
    /\ viewer.navigation_progress < ProgOne
    /\ HasImage(viewer)
    /\ viewer.quit_timers = 0

\* C10: a tick requests a repaint exactly if a slide, the opening or the
\* closing animation was under way, or the tick moved background_opacity,
\* pan_velocity, current_scale or current_offset.
C10_RepaintIffActive ==
    [][Settle(MaxSettleTicks)
       => (needs_update'
             <=> \/ viewer.navigation_animation
                 \/ viewer.opening_animation
                 \/ viewer.closing_animation
                 \/ viewer'.background_opacity # viewer.background_opacity
                 \/ viewer'.pan_velocity # viewer.pan_velocity
                 \/ viewer'.current_scale # viewer.current_scale
                 \/ viewer'.current_offset # viewer.current_offset)]_vars

\* C10 witness: the idle steady state after a fling, where a tick has
\* requested no repaint.
C10_Witness == Idle /\ ~drag.down /\ viewer.pan_velocity # ZeroPt

\* at most one deferred _do_update is outstanding, and update_pending says so
OneRepaintOutstanding(v) ==
    /\ v.update_timers \in {0, 1}
    /\ v.update_pending <=> v.update_timers = 1

\* C11: at most one deferred repaint is outstanding, update_pending is true
\* exactly while one is, and however many schedule_update calls came before
\* it, the deferred repaint calls update() once and leaves none outstanding;
\* nothing else calls update().
C11_RepaintsCoalesced ==
    [][/\ OneRepaintOutstanding(viewer)
       /\ OneRepaintOutstanding(viewer')
       /\ IF DoUpdate(MaxUpdates)
          THEN /\ viewer'.updates = viewer.updates + 1
               /\ viewer'.update_timers = 0
               /\ ~viewer'.update_pending
          ELSE /\ viewer'.updates = viewer.updates
               /\ viewer'.update_timers >= viewer.update_timers]_vars

\* C11 witness: the first deferred repaint has just run, after the load and
\* two ticks had each asked for one: one update(), none outstanding.
C11_Witness ==
    /\ op.name = "_do_update"
    /\ viewer.updates = 1
    /\ viewer.update_timers = 0
    /\ HasImage(viewer)
    /\ n_ticks = 2
    /\ needs_update

\* a step of a handler that calls close_application
CloseRequest ==
    \/ Key(CloseOn, {"Escape"})
    \/ RightPress(CloseOn)
    \/ /\ Press(CloseOn, {Center, Corner})
       /\ ~point_in_image(viewer, op'.pos)
       /\ ~viewer.is_fullscreen

\* C12: once set, closing_animation stays true; the first close request
\* schedules the exit, a later one schedules nothing, and no step other than
\* a close request or a load failure schedules an exit.
C12_ClosingOneWay ==
    [][/\ viewer.closing_animation => viewer'.closing_animation
       /\ CloseRequest
          => /\ viewer'.closing_animation
             /\ viewer'.quit_timers =
                  viewer.quit_timers + (IF viewer.closing_animation THEN 0 ELSE 1)
       /\ (~CloseRequest /\ ~Deliver)
          => /\ viewer'.quit_timers = viewer.quit_timers
             /\ viewer'.closing_animation = viewer.closing_animation]_vars

\* C12 witness: a close request made while the closing animation was already
\* running; the exit is still scheduled once.
C12_Witness ==
    /\ op.name \in {"Escape", "RightButton"}
    /\ viewer.closing_animation
    /\ viewer.closing_scale < ScaleOne
    /\ HasImage(viewer)
    /\ viewer.quit_timers = 1

\* the file whose image is displayed: the static pixmap, else the movie
Displayed(v) == IF v.pixmap # NoPixmap THEN v.pixmap ELSE v.movie

WindowedFit(v) ==
    LET w == IF v.rotation \in {90, 270} THEN PixH(Displayed(v)) ELSE PixW(Displayed(v))
        h == IF v.rotation \in {90, 270} THEN PixW(Displayed(v)) ELSE PixH(Displayed(v))
    IN  IF w > 0 /\ h > 0
        THEN Min2(Min2((AvailW * 9 * ScaleOne) \div (10 * w),
                       (AvailH * 9 * ScaleOne) \div (10 * h)), ScaleOne)
        ELSE ScaleOne

\* min(screenW / effW, screenH / effH), with no cap
UncappedFit(v) ==
    LET w == IF v.rotation \in {90, 270} THEN PixH(Displayed(v)) ELSE PixW(Displayed(v))
        h == IF v.rotation \in {90, 270} THEN PixW(Displayed(v)) ELSE PixH(Displayed(v))
    IN  IF w > 0 /\ h > 0
        THEN Min2((ScreenW * ScaleOne) \div w, (ScreenH * ScaleOne) \div h)
        ELSE ScaleOne

\* C14: fit_scale never exceeds 1.0; a step that stores a new fit_scale
\* stores min(0.9*boxW/effW, 0.9*boxH/effH, 1.0) of the image displayed and
\* its rotation; entering fullscreen mode with an image sets target_scale to
\* min(screenW/effW, screenH/effH), uncapped.
C14_FitScale ==
    [][/\ viewer'.fit_scale <= ScaleOne
       /\ (HasImage(viewer') /\ viewer'.fit_scale # viewer.fit_scale)
          => viewer'.fit_scale = WindowedFit(viewer')
       /\ (HasImage(viewer) /\ ~viewer.is_fullscreen /\ viewer'.is_fullscreen)
          => viewer'.target_scale = UncappedFit(viewer')]_vars

\* the delivery of imageLoaded to _on_image_loaded
StaticImageLoaded ==
    /\ Deliver
    /\ Head(queue).sig = "imageLoaded"
    /\ Head(queue).slot = "load"

\* the transform and the animation state _setup_image_display leaves
DisplaySetUp(v) ==
    /\ v.pixmap # NoPixmap
    /\ v.rotation = 0
    /\ v.fit_scale = WindowedFit(v)
    /\ v.target_scale = v.fit_scale
    /\ v.current_scale = Scaled(v.fit_scale, 8, 10)
    /\ v.target_offset = AvailCenter
    /\ v.current_offset = AvailCenter
    /\ v.pan_velocity = ZeroPt
    /\ v.opening_animation
    /\ v.opening_scale = Scaled(ScaleOne, 8, 10)
    /\ v.opening_opacity = 0

\* C15: when a static image has loaded, target_scale = fit_scale,
\* current_scale = 0.8 * fit_scale, both offsets are the screen centre,
\* pan_velocity is zero and the opening animation restarts; a 1920x1080 image
\* in a 2560x1440 box has fit_scale 1.0; and once the ticks that follow have
\* come to rest, current_scale is the fit scale.
C15_LoadedImageSetup ==
    [][/\ StaticImageLoaded => DisplaySetUp(viewer')
       /\ Min2(BoxScale(2560, 1440, 1920, 1080, 9), ScaleOne) = ScaleOne
       /\ (Idle' /\ viewer'.pixmap # NoPixmap /\ viewer'.target_scale = viewer'.fit_scale)
          => viewer'.current_scale = viewer'.fit_scale]_vars

\* the part of C15 that is about the load itself
C15_SetupOnly == [][StaticImageLoaded => DisplaySetUp(viewer')]_vars

\* zoom_to, wheel zoom, keyboard zoom, double click, the fits (F; R, which
\* refits after turning) and pointer moves
ViewportHandlers ==
    {"zoom_to", "wheelEvent", "Plus", "Minus", "mouseDoubleClickEvent", "F", "R",
     "mouseMoveEvent"}

Requested(v) == v.image_files[v.current_index + 1]

\* C17: in a tick with a slide under way, navigation_progress grows by
\* NAVIGATION_SPEED and stays within [0, 1]; in the tick where it reaches 1
\* the requested image becomes the displayed image, old_pixmap and new_pixmap
\* are cleared, navigation_animation is reset, target_offset is the screen
\* centre and target_scale the fit scale of the new image.
C17_SlideCompletes ==
    [][(Settle(MaxSlideTicks) /\ viewer.navigation_animation)
       => /\ viewer'.navigation_progress =
               Min2(ProgOne, viewer.navigation_progress + NAVIGATION_SPEED)
          /\ viewer'.navigation_progress >= 0
          /\ viewer'.navigation_progress <= ProgOne
          /\ viewer'.navigation_progress = ProgOne
             => /\ Displayed(viewer') = Requested(viewer)
                /\ viewer'.old_pixmap = NoPixmap
                /\ viewer'.new_pixmap = NoPixmap
                /\ ~viewer'.navigation_animation
                /\ viewer'.target_offset = AvailCenter
                /\ viewer'.target_scale = WindowedFit(viewer')]_vars

\* the part of C17 that holds whether or not the image has arrived
C17_SlideEnds ==
    [][(Settle(MaxSlideTicks) /\ viewer.navigation_animation)
       => /\ viewer'.navigation_progress =
               Min2(ProgOne, viewer.navigation_progress + NAVIGATION_SPEED)
          /\ viewer'.navigation_progress = ProgOne
             => /\ viewer.new_pixmap # NoPixmap
                   => Displayed(viewer') = viewer.new_pixmap
                /\ viewer'.old_pixmap = NoPixmap
                /\ viewer'.new_pixmap = NoPixmap
                /\ ~viewer'.navigation_animation
                /\ viewer'.target_offset = AvailCenter]_vars

\* C18: whenever no slide is active and no load is in flight, the displayed
\* image is the file at image_files[current_index].
C18_DisplayedIsCurrent ==
    (/\ HasImage(viewer)
     /\ viewer.current_index # -1
     /\ ~viewer.navigation_animation
     /\ ~viewer.loading_thread.running
     /\ queue = << >>)
    => Displayed(viewer) = Requested(viewer)

\* C19: in fullscreen mode with an image loaded, target_scale is at least
\* the smaller of the fullscreen fit scale of the image and its rotation and
\* MAX_SCALE.
C19_FullscreenScaleFloor ==
    (viewer.is_fullscreen /\ HasImage(viewer))
    => viewer.target_scale >= Min2(UncappedFit(viewer), MAX_SCALE)

\* no call of get or put is under way
CacheQuiet == \A t \in Threads : viewer.threads[t].pc = "idle"

\* C20: with pool threads calling put while the main thread calls get and
\* put, no statement of get or put raises, and between calls the cache holds
\* at most max_size entries and access_order lists exactly the cached keys,
\* each once.
C20_CacheConsistent ==
    /\ ~viewer.raised
    /\ CacheQuiet
       => LET c == viewer.image_cache
          IN  /\ Cardinality(c.cache) <= CacheMaxSize
              /\ Elements(c.access_order) = c.cache
              /\ Len(c.access_order) = Cardinality(c.cache)

\* C21: a tick that finds a navigation slide in progress leaves
\* background_opacity as it was.
C21_FadePausedDuringSlide ==
    [][(Tick(MaxNavTicks) /\ viewer.navigation_animation)
       => viewer'.background_opacity = viewer.background_opacity]_vars

\* C22: while closing has not started, target_background_opacity is
\* FULLSCREEN_BG_OPACITY in fullscreen mode and WINDOWED_BG_OPACITY in
\* windowed mode.
C22_FadeTargetByMode ==
    ~viewer.closing_animation
    => viewer.target_background_opacity =
           IF viewer.is_fullscreen THEN FULLSCREEN_BG_OPACITY
           ELSE WINDOWED_BG_OPACITY

\* C23: once the closing sequence has started, target_background_opacity is 0
\* whatever events follow.
C23_ClosingFadeTarget ==
    viewer.closing_animation => viewer.target_background_opacity = 0

\* C24: the opening animation ends by itself.  From any opening_scale and
\* opening_opacity in [0, 1], with no image load, MaxOpeningTicks ticks clear
\* opening_animation; when it is cleared both values are exactly 1.0, and
\* neither is ever above 1.0.
C24_OpeningTerminates ==
    /\ viewer.opening_scale <= ScaleOne
    /\ viewer.opening_opacity <= ScaleOne
    /\ ~viewer.opening_animation
       => viewer.opening_scale = ScaleOne /\ viewer.opening_opacity = ScaleOne
    /\ n_ticks >= MaxOpeningTicks => ~viewer.opening_animation

\* a tick has ended an opening animation begun at (0, 0)
C24_Witness ==
    /\ op.name = "animate"
    /\ ~viewer.opening_animation
    /\ viewer.opening_scale = ScaleOne
    /\ n_ticks = MaxOpeningTicks

\* zoom_to neither clamps nor floors the requested scale
Unclamped(v, requested) ==
    /\ MIN_SCALE <= requested
    /\ requested <= MAX_SCALE
    /\ v.is_fullscreen => requested >= FullscreenFit(v)

\* C25: a wheel or keyboard zoom event multiplies target_scale by its step
\* factor whenever the result is not clamped, whatever current_scale is; so
\* events with no tick between them compose to the product of their factors.
C25_ZoomFromTarget ==
    [][(n_events' = n_events + 1 /\ HasImage(viewer))
       => LET t == viewer.target_scale
              wheel(delta) == Scaled(t, 100 + delta * ZOOM_STEP, 100)
              plus == Scaled(t, ZOOM_FACTOR, 100)
              minus == Scaled(t, 100, ZOOM_FACTOR)
          IN  /\ \A delta \in {-1, 1} :
                   (/\ op'.name = "wheelEvent"
                    /\ viewer' = wheelEvent(viewer, delta, op'.pos)
                    /\ Unclamped(viewer, wheel(delta)))
                   => viewer'.target_scale = wheel(delta)
              /\ (op'.name = "Plus" /\ Unclamped(viewer, plus))
                   => viewer'.target_scale = plus
              /\ (op'.name = "Minus" /\ Unclamped(viewer, minus))
                   => viewer'.target_scale = minus]_vars

\* two wheel steps up with no tick between them, while current_scale lags
C25_Witness ==
    /\ op.name = "wheelEvent"
    /\ n_events = 2
    /\ n_ticks = 0
    /\ ~viewer.is_fullscreen
    /\ viewer.current_scale < viewer.fit_scale
    /\ viewer.target_scale =
           Scaled(Scaled(viewer.fit_scale, 100 + ZOOM_STEP, 100), 100 + ZOOM_STEP, 100)

\* p lies in the box offset_current +- (native size * scale_current) / 2
InBoundingBox(v, p) ==
    LET cp == _get_current_pixmap(v)
    IN  /\ cp # NoPixmap
        /\ 2 * Abs(p.x - v.current_offset.x)
               <= MulDivNat(v.current_scale, PixW(cp), ScaleOne \div PxOne)
        /\ 2 * Abs(p.y - v.current_offset.y)
               <= MulDivNat(v.current_scale, PixH(cp), ScaleOne \div PxOne)

\* v and w differ at most in the memo of _get_current_pixmap
SameButMemo(v, w) ==
    w = [v EXCEPT !._current_pixmap_cache = w._current_pixmap_cache,
                  !._needs_cache_update = w._needs_cache_update]

\* C26: a left-button press inside the image's bounding box starts panning
\* (is_panning set, pointer position recorded, pan_velocity zeroed) and does
\* not close; a press outside it leaves is_panning alone, and starts the
\* closing sequence in windowed mode and changes nothing in fullscreen mode.
C26_PressStartsPanInside ==
    [][(n_events' = n_events + 1 /\ op'.name = "mousePressEvent")
       => IF InBoundingBox(viewer, op'.pos)
          THEN /\ viewer'.is_panning
               /\ viewer'.last_mouse_pos = op'.pos
               /\ viewer'.pan_velocity = ZeroPt
               /\ viewer'.closing_animation = viewer.closing_animation
          ELSE /\ viewer'.is_panning = viewer.is_panning
               /\ viewer'.last_mouse_pos = viewer.last_mouse_pos
               /\ IF viewer.is_fullscreen
                  THEN SameButMemo(viewer, viewer')
                  ELSE /\ viewer'.closing_animation
                       /\ ~viewer.closing_animation
                          => /\ viewer'.target_background_opacity = 0
                             /\ viewer'.quit_timers = viewer.quit_timers + 1]_vars

\* a press outside the image in fullscreen mode: neither panning nor closing
C26_Witness ==
    /\ op.name = "mousePressEvent"
    /\ viewer.is_fullscreen
    /\ HasImage(viewer)
    /\ ~InBoundingBox(viewer, op.pos)
    /\ ~viewer.is_panning
    /\ ~viewer.closing_animation

\* a press inside the image has started panning
C26_PanStarted ==
    /\ op.name = "mousePressEvent"
    /\ InBoundingBox(viewer, op.pos)
    /\ viewer.is_panning
    /\ viewer.last_mouse_pos = op.pos

\* C27: a pointer move while panning adds the pointer delta to current_offset,
\* sets target_offset to the new current_offset, pan_velocity to 0.6 * delta
\* and last_mouse_pos to the pointer, and leaves both scales alone; a move
\* while not panning changes nothing.
C27_MoveDragsOneToOne ==
    [][(n_events' = n_events + 1 /\ op'.name = "mouseMoveEvent")
       => IF viewer.is_panning
          THEN LET delta == PtSub(op'.pos, viewer.last_mouse_pos)
               IN  /\ viewer'.current_offset = PtAdd(viewer.current_offset, delta)
                   /\ viewer'.target_offset = viewer'.current_offset
                   /\ viewer'.pan_velocity = PtScaled(delta, 6, 10)
                   /\ viewer'.last_mouse_pos = op'.pos
                   /\ viewer'.current_scale = viewer.current_scale
                   /\ viewer'.target_scale = viewer.target_scale
          ELSE viewer' = viewer]_vars

\* a move during a drag, made while the scale was still converging
C27_Witness ==
    /\ op.name = "mouseMoveEvent"
    /\ viewer.is_panning
    /\ drag.last_delta # ZeroPt
    /\ viewer.pan_velocity = PtScaled(drag.last_delta, 6, 10)
    /\ viewer.target_offset = viewer.current_offset
    /\ viewer.current_scale # viewer.target_scale

\* the handler of the step calls fit_to_screen with an image shown: F, the
\* spacebar or R in windowed mode, or a windowed double click away from fit
FitToScreenCalled ==
    /\ n_events' = n_events + 1
    /\ HasImage(viewer)
    /\ ~viewer.is_fullscreen
    /\ \/ op'.name \in {"F", "Space", "R"}
       \/ /\ op'.name = "mouseDoubleClickEvent"
          /\ Abs(viewer.target_scale - viewer.fit_scale) >= ScaleOne \div 100

\* C28: fit_to_screen only retargets.  It sets target_scale to the fit scale
\* and target_offset to the screen centre and leaves current_scale and
\* current_offset as they were.
C28_FitOnlyRetargets ==
    [][FitToScreenCalled
       => /\ viewer'.target_scale = viewer'.fit_scale
          /\ viewer'.target_scale = WindowedFit(viewer')
          /\ viewer'.target_offset = AvailCenter
          /\ viewer'.current_scale = viewer.current_scale
          /\ viewer'.current_offset = viewer.current_offset]_vars

\* F pressed while the image is zoomed in and off centre
C28_Witness ==
    /\ op.name = "F"
    /\ HasImage(viewer)
    /\ ~viewer.is_fullscreen
    /\ viewer.target_scale = viewer.fit_scale
    /\ viewer.current_scale > viewer.target_scale
    /\ viewer.target_offset = AvailCenter
    /\ viewer.current_offset # AvailCenter

\* C29: F or the spacebar pressed in windowed mode when the targets already
\* are the fit scale and the screen centre and the view has come to rest
\* still moves the image: the next tick changes current_offset and requests a
\* repaint.
C29_RepeatedFitMoves ==
    [][(/\ n_events' = n_events + 1
        /\ op'.name \in {"F", "Space"}
        /\ HasImage(viewer)
        /\ ~viewer.is_fullscreen
        /\ viewer.target_scale = WindowedFit(viewer)
        /\ viewer.target_offset = AvailCenter
        /\ AtRest(viewer))
       => /\ animate(viewer').current_offset # viewer'.current_offset
          /\ animate_needs_update(viewer')]_vars

\* the fit scale of the mode: the windowed fit, or the fullscreen fit
ModeFit(v) == IF v.is_fullscreen THEN UncappedFit(v) ELSE WindowedFit(v)

\* C30: a double click or the spacebar, with an image shown, retargets the
\* scale to 1.0 when current_scale is within 0.01 of the fit scale of the
\* mode, and otherwise retargets to that fit scale and the screen centre.
C30_FitToggle ==
    [][(/\ n_events' = n_events + 1
        /\ op'.name \in {"mouseDoubleClickEvent", "Space"}
        /\ HasImage(viewer))
       => IF Abs(viewer.current_scale - ModeFit(viewer)) < ScaleOne \div 100
          THEN viewer'.target_scale =
                   IF viewer.is_fullscreen
                   THEN Clamp(Max2(ModeFit(viewer), ScaleOne))
                   ELSE ScaleOne
          ELSE /\ viewer'.target_scale = ModeFit(viewer)
               /\ viewer'.target_offset =
                      IF viewer.is_fullscreen THEN ScreenCenter ELSE AvailCenter]_vars

\* C31: every step that recomputes a fit scale takes the effective dimensions
\* of the displayed image at the rotation of that moment: the tick that
\* completes a navigation slide and R in windowed mode target the windowed
\* fit, R in fullscreen mode and entering fullscreen mode the fullscreen fit.
C31_FitUsesCurrentRotation ==
    [][/\ (/\ Settle(MaxSlideTicks)
           /\ viewer.navigation_animation
           /\ ~viewer'.navigation_animation
           /\ HasImage(viewer'))
          => viewer'.target_scale = WindowedFit(viewer')
       /\ (n_events' = n_events + 1 /\ op'.name = "R" /\ HasImage(viewer))
          => viewer'.target_scale =
                 IF viewer.is_fullscreen THEN UncappedFit(viewer')
                 ELSE WindowedFit(viewer')
       /\ (/\ n_events' = n_events + 1
           /\ op'.name = "F11"
           /\ ~viewer.is_fullscreen
           /\ HasImage(viewer))
          => viewer'.target_scale = UncappedFit(viewer')]_vars

\* the step completes an image swap: a load slot or a fullscreen navigation
\* slot has taken the loader's image, or the last tick of a windowed slide has
\* promoted new_pixmap
ImageSwapped ==
    \/ /\ Deliver
       /\ Head(queue).sig \in {"imageLoaded", "animatedImageLoaded"}
       /\ Head(queue).slot = "load" \/ viewer.is_fullscreen
    \/ /\ op'.name = "animate"
       /\ viewer.navigation_animation
       /\ ~viewer'.navigation_animation
       /\ viewer.new_pixmap # NoPixmap

\* C32: the scale does not persist across images.  A completed image swap
\* leaves fit_scale at the windowed fit of the image now displayed and
\* target_scale at a fit scale of that image; in fullscreen mode no scale
\* saved before the swap stays behind to be reinstated on leaving it, so
\* saved_scale is a fit scale of that image too.
C32_ScaleOfDisplayedImage ==
    [][ImageSwapped
       => /\ viewer'.fit_scale = WindowedFit(viewer')
          /\ viewer'.target_scale \in {WindowedFit(viewer'), UncappedFit(viewer')}
          /\ viewer'.is_fullscreen
             => viewer'.saved_scale \in {WindowedFit(viewer'), UncappedFit(viewer')}]_vars

\* p is on the picture as _draw_single_image paints it: centred on
\* current_offset, turned by rotation, scaled by current_scale and by the
\* opening or closing scale
OnRenderedImage(v, p) ==
    LET cp == Displayed(v)
        final_scale == IF v.opening_animation
                       THEN MulDivNat(v.current_scale, v.opening_scale, ScaleOne)
                       ELSE IF v.closing_animation
                       THEN MulDivNat(v.current_scale, v.closing_scale, ScaleOne)
                       ELSE v.current_scale
        img_w == MulDivNat(final_scale, PixW(cp), ScaleOne \div PxOne)
        img_h == MulDivNat(final_scale, PixH(cp), ScaleOne \div PxOne)
        turned == v.rotation \in {90, 270}
    IN  /\ cp # NoPixmap
        /\ 2 * Abs(p.x - v.current_offset.x) <= IF turned THEN img_h ELSE img_w
        /\ 2 * Abs(p.y - v.current_offset.y) <= IF turned THEN img_w ELSE img_h

\* C33: in windowed mode, with the image turned by 90 or 270 degrees, a left
\* press on a point of the rendered image starts panning and does not start
\* the closing sequence.
C33_HitTestFollowsRotation ==
    [][(/\ n_events' = n_events + 1
        /\ op'.name = "mousePressEvent"
        /\ ~viewer.is_fullscreen
        /\ ~viewer.navigation_animation
        /\ viewer.rotation \in {90, 270}
        /\ OnRenderedImage(viewer, op'.pos))
       => /\ viewer'.is_panning
          /\ viewer'.closing_animation = viewer.closing_animation]_vars

\* current_index is -1 or an index of image_files
ValidIndex(v) ==
    v.current_index = -1
    \/ (0 <= v.current_index /\ v.current_index < Len(v.image_files))

\* the index next to i in a list of n entries, wrapping at both ends
Wrapped(i, d, n) ==
    IF d = 1 THEN (IF i = n - 1 THEN 0 ELSE i + 1)
    ELSE (IF i = 0 THEN n - 1 ELSE i - 1)

\* the step is keyPressEvent with A or D
NavigationKey == n_events' = n_events + 1 /\ op'.name \in {"A", "D"}

\* C34 as claimed: navigate_to_image(d) with at least two files and a valid
\* current_index moves current_index to (current_index + d) mod len, and is a
\* no-op with an empty list, current_index = -1 or a single file; and
\* current_index is always -1 or a valid index.
C34_NavigationIndex ==
    /\ ValidIndex(viewer)
    /\ [][/\ ValidIndex(viewer')
          /\ NavigationKey
             => LET d == IF op'.name = "A" THEN -1 ELSE 1
                    n == Len(viewer.image_files)
                IN  IF n <= 1 \/ viewer.current_index = -1
                    THEN viewer' = viewer
                    ELSE viewer'.current_index = Wrapped(viewer.current_index, d, n)]_vars

\* C34, amended: the same, except that navigate_to_image is a no-op too while
\* a navigation slide is in progress.
C34_NavigationIndexOutsideSlide ==
    /\ ValidIndex(viewer)
    /\ [][/\ ValidIndex(viewer')
          /\ NavigationKey
             => LET d == IF op'.name = "A" THEN -1 ELSE 1
                    n == Len(viewer.image_files)
                IN  IF n <= 1 \/ viewer.current_index = -1 \/ viewer.navigation_animation
                    THEN viewer' = viewer
                    ELSE viewer'.current_index = Wrapped(viewer.current_index, d, n)]_vars

\* A pressed on the first of three files has wrapped to the last
C34_Witness ==
    /\ op.name = "A"
    /\ n_events = 1
    /\ viewer.image_path = 1
    /\ viewer.image_files = <<1, 2, 3>>
    /\ viewer.current_index = 2
    /\ viewer.loading_thread.path = 3

\* C35: an execution of ImageLoader.run emits exactly one signal, one of
\* imageLoaded, animatedImageLoaded and loadFailed, whatever the file: never
\* more than one on the way, and one when run has returned.
C35_OneSignalPerRun ==
    /\ Len(queue) <= 1
    /\ \A i \in 1..Len(queue) :
         queue[i] \in {"imageLoaded", "animatedImageLoaded", "loadFailed"}
    /\ viewer.pc = "returned" => Len(queue) = 1

\* run has returned after an animated file with no first frame fell back to
\* the static load
C35_Witness ==
    /\ viewer.pc = "returned"
    /\ viewer.file.exists
    /\ viewer.file.header # "video"
    /\ viewer.file.animated_suffix
    /\ viewer.file.movie = "valid"
    /\ viewer.file.first_frame = "null"
    /\ queue = <<"imageLoaded">>

\* C36: after any sequence of get, put and clear calls made by one thread the
\* cache holds at most max_size entries, access_order lists exactly the keys
\* of cache, each once, and no call has raised.
C36_CacheWellFormed ==
    LET c == viewer.image_cache
    IN  /\ Cardinality(DOMAIN c.cache) <= CacheMaxSize
        /\ Elements(c.access_order) = DOMAIN c.cache
        /\ Len(c.access_order) = Cardinality(DOMAIN c.cache)
        /\ ~c.raised

\* a put into a full cache has evicted a path that was used before
C36_Witness ==
    /\ viewer.call.name = "put"
    /\ Cardinality(DOMAIN viewer.image_cache.cache) = CacheMaxSize
    /\ \E k \in Files :
         /\ k \notin DOMAIN viewer.image_cache.cache
         /\ viewer.last_use[k] > 0
         /\ \A j \in DOMAIN viewer.image_cache.cache :
              viewer.last_use[j] > viewer.last_use[k]

\* the cached path whose last get hit or put is oldest
Oldest(v) ==
    CHOOSE k \in DOMAIN v.image_cache.cache :
        \A j \in DOMAIN v.image_cache.cache : v.last_use[k] <= v.last_use[j]

\* d and e agree on every key they share other than key
SameElsewhere(d, e, key) ==
    \A k \in (DOMAIN d \cap DOMAIN e) \ {key} : d[k] = e[k]

\* C37: ImageCache is least-recently-used.  A put of a new path into a full
\* cache evicts the path whose last use is oldest and nothing else; a put of
\* a cached path replaces its pixmap and evicts nothing; a get hit returns
\* the stored pixmap, keeps the contents and makes the path the most recently
\* used; a get miss returns None and changes nothing.
C37_LeastRecentlyUsed ==
    [][n_events' = n_events + 1
       => LET c == viewer.image_cache
              d == viewer'.image_cache
              call == viewer'.call
              keys == DOMAIN c.cache
          IN  /\ (call.name = "put" /\ call.path \notin keys)
                 => /\ DOMAIN d.cache =
                         (IF Cardinality(keys) >= CacheMaxSize
                          THEN keys \ {Oldest(viewer)} ELSE keys) \cup {call.path}
                    /\ d.cache[call.path] = call.pixmap
                    /\ SameElsewhere(c.cache, d.cache, call.path)
              /\ (call.name = "put" /\ call.path \in keys)
                 => /\ DOMAIN d.cache = keys
                    /\ d.cache[call.path] = call.pixmap
                    /\ SameElsewhere(c.cache, d.cache, call.path)
              /\ (call.name = "get" /\ call.path \in keys)
                 => /\ d.returned = c.cache[call.path]
                    /\ d.cache = c.cache
                    /\ d.access_order[Len(d.access_order)] = call.path
              /\ (call.name = "get" /\ call.path \notin keys)
                 => /\ d.returned = None
                    /\ d.cache = c.cache
                    /\ d.access_order = c.access_order]_vars

\* put 1, put 2, a get hit on 1, put 3: the put into the full cache has
\* evicted path 2, whose last use was older than the get of path 1
C37_Witness ==
    /\ viewer.call.name = "put"
    /\ n_events = 4
    /\ DOMAIN viewer.image_cache.cache = {1, 3}
    /\ viewer.last_use = [k \in Files |-> IF k = 1 THEN 3 ELSE IF k = 2 THEN 2 ELSE 4]
    /\ viewer.image_cache.access_order = <<1, 3>>

====
